---------------------------- MODULE Spec2Model ----------------------------
(***************************************************************************)
(* Model of the EDI claim parser (edi_parser.py).                          *)
(*                                                                         *)
(* A line of a claim file is a sequence of bytes; a byte is a string: an   *)
(* ASCII byte is the one-character string of its character, the high bytes *)
(* 0xA9 and 0xF7 of the cp949 codepage are "xA9" and "xF7".  A text is a   *)
(* sequence of characters (strings again); the characters a high-byte pair *)
(* decodes to have names ("sup2" is the superscript two).                  *)
(***************************************************************************)
EXTENDS Integers, Sequences, FiniteSets, TLC

(***************************************************************************)
(* Bounds of the model.                                                    *)
(***************************************************************************)
\* number of directories of the input tree (Spec)
MaxDirs == 2
\* number of lines read from the four files of one claim directory (SpecDir)
MaxLines == 4

(***************************************************************************)
(* Generic helpers.                                                        *)
(***************************************************************************)
Max(a, b) == IF a >= b THEN a ELSE b

Min(a, b) == IF a <= b THEN a ELSE b

Range(s) == {s[i] : i \in 1..Len(s)}

RECURSIVE Concat(_)
Concat(ss) == IF ss = <<>> THEN <<>> ELSE Head(ss) \o Concat(Tail(ss))

\* Python's optional values: None is <<>>, a value v is <<v>>.
None == <<>>

Some(v) == <<v>>

(***************************************************************************)
(* Bytes, decoding and stripping.                                          *)
(***************************************************************************)
HighBytes == {"xA9", "xF7"}

Letters ==
    {"A", "B", "C", "D", "E", "F", "G", "H", "I", "J", "K", "L", "M", "N", "O", "P",
     "Q", "R", "S", "T", "U", "V", "W", "X", "Y", "Z", "a", "b", "c", "d", "e", "f",
     "g", "h", "i", "j", "k", "l", "m", "n", "o", "p", "q", "r", "s", "t", "u", "v",
     "w", "x", "y", "z"}

\* bytes.decode("cp949", errors="ignore") on the byte pairs of the model
DoubleByte(lead, trail) ==
    CASE lead = "xA9" /\ trail = "xF7" -> "sup2"
      [] lead = "xF7" /\ trail = "xA9" -> "han1"
      [] lead = "xA9" /\ trail = "xA9" -> "lstroke"
      [] OTHER -> "han2"

\* A lead byte 0xA9 takes a letter as its trail byte too (the pair is a
\* Hangul syllable, "syl" for all of them); a lead byte 0xF7 does not.  A
\* lead byte without a trail byte is dropped.
RECURSIVE Decode(_)
Decode(chunk) ==
    IF \A i \in 1..Len(chunk) : chunk[i] \notin HighBytes THEN chunk
    ELSE IF chunk[1] \notin HighBytes THEN <<chunk[1]>> \o Decode(Tail(chunk))
    ELSE IF Len(chunk) >= 2 /\ chunk[2] \in HighBytes
         THEN <<DoubleByte(chunk[1], chunk[2])>> \o Decode(SubSeq(chunk, 3, Len(chunk)))
    ELSE IF Len(chunk) >= 2 /\ chunk[1] = "xA9" /\ chunk[2] \in Letters
         THEN <<"syl">> \o Decode(SubSeq(chunk, 3, Len(chunk)))
         ELSE Decode(Tail(chunk))

\* the whitespace str.strip() removes, of the characters of the model
WhitespaceChars == {" ", "\t", "\r", "\n"}

RECURSIVE LStrip(_)
LStrip(t) == IF t # <<>> /\ t[1] \in WhitespaceChars THEN LStrip(Tail(t)) ELSE t

RECURSIVE RStrip(_)
RStrip(t) ==
    IF t # <<>> /\ t[Len(t)] \in WhitespaceChars
    THEN RStrip(SubSeq(t, 1, Len(t) - 1))
    ELSE t

Strip(t) == LStrip(RStrip(t))

\* bytes.rstrip(b"\r\n") of _iter_lines
RECURSIVE RStripNewline(_)
RStripNewline(b) ==
    IF b # <<>> /\ b[Len(b)] \in {"\r", "\n"}
    THEN RStripNewline(SubSeq(b, 1, Len(b) - 1))
    ELSE b

SliceRaw(line, start, length) ==
    LET begin == Max(start - 1, 0)
        end == begin + length
    IN Decode(SubSeq(line, begin + 1, Min(end, Len(line))))

SliceText(line, start, length) == Strip(SliceRaw(line, start, length))

(***************************************************************************)
(* Numbers and dates.                                                      *)
(***************************************************************************)
Digits == {"0", "1", "2", "3", "4", "5", "6", "7", "8", "9"}

DigitVal(c) ==
    CASE c = "0" -> 0 [] c = "1" -> 1 [] c = "2" -> 2 [] c = "3" -> 3
      [] c = "4" -> 4 [] c = "5" -> 5 [] c = "6" -> 6 [] c = "7" -> 7
      [] c = "8" -> 8 [] c = "9" -> 9

RECURSIVE DigitsVal(_)
DigitsVal(t) ==
    IF t = <<>> THEN 0 ELSE 10 * DigitsVal(SubSeq(t, 1, Len(t) - 1)) + DigitVal(t[Len(t)])

AllDigits(t) == \A i \in 1..Len(t) : t[i] \in Digits

\* str.isdigit(): every character is a digit character (the superscript two
\* is one) and there is at least one
IsDigitStr(t) == t # <<>> /\ \A i \in 1..Len(t) : t[i] \in Digits \cup {"sup2"}

RemoveChar(t, c) == SelectSeq(t, LAMBDA x : x # c)

\* the texts int() accepts: surrounding whitespace, an optional sign, decimal
\* digits with single underscores between them
IntBody(t) == IF t # <<>> /\ t[1] \in {"+", "-"} THEN Tail(t) ELSE t

IsIntLiteral(t) ==
    LET b == IntBody(Strip(t))
    IN /\ b # <<>>
       /\ \A i \in 1..Len(b) : b[i] \in Digits \cup {"_"}
       /\ b[1] # "_" /\ b[Len(b)] # "_"
       /\ \A i \in 1..(Len(b) - 1) : ~(b[i] = "_" /\ b[i + 1] = "_")

IntValue(t) ==
    LET s == Strip(t)
        v == DigitsVal(RemoveChar(IntBody(s), "_"))
    IN IF s[1] = "-" THEN 0 - v ELSE v

\* a _parse_int that returns zero where it should return None
IntOrZero(value) ==
    IF IsIntLiteral(Strip(value)) THEN Some(IntValue(Strip(value))) ELSE Some(0)

_parse_int(value) ==
    LET stripped == Strip(value)
    IN IF stripped = <<>> THEN None
       ELSE IF IsIntLiteral(stripped) THEN Some(IntValue(stripped))
       ELSE None

_parse_amount(value) ==
    LET stripped == RemoveChar(Strip(value), ",")
    IN IF stripped = <<>> THEN 0
       ELSE IF IsIntLiteral(stripped) THEN IntValue(stripped)
       ELSE 0

(***************************************************************************)
(* Decimal(raw) and _parse_decimal.  A finite Decimal is the record         *)
(* [nan |-> FALSE, sign, coef, exp] with value (-1)^sign * coef * 10^exp.   *)
(***************************************************************************)
RECURSIVE Pow10(_)
Pow10(k) == IF k <= 0 THEN 1 ELSE 10 * Pow10(k - 1)

RECURSIVE NumDigits(_)
NumDigits(n) == IF n < 10 THEN 1 ELSE 1 + NumDigits(n \div 10)

Lower(c) ==
    CASE c = "I" -> "i" [] c = "N" -> "n" [] c = "F" -> "f" [] c = "T" -> "t"
      [] c = "Y" -> "y" [] c = "A" -> "a" [] c = "S" -> "s" [] c = "E" -> "e"
      [] OTHER -> c

LowerText(t) == [i \in 1..Len(t) |-> Lower(t[i])]

\* index of the first occurrence of a character of cs in t, 0 when none
FirstIndex(t, cs) ==
    IF \E i \in 1..Len(t) : t[i] \in cs
    THEN CHOOSE i \in 1..Len(t) : t[i] \in cs /\ \A j \in 1..(i - 1) : t[j] \notin cs
    ELSE 0

SignOf(t) == IF t # <<>> /\ t[1] = "-" THEN 1 ELSE 0

DecimalPrecision == 28

\* The parts of a decimal literal: sign, mantissa digits before and after
\* the point, exponent.  Each step hands what it computed to the next as
\* parameters.
DecRecord(s, body, hasExp, expo, mant, dot) ==
    [sign |-> SignOf(s), body |-> body, hasExp |-> hasExp, expo |-> expo,
     ipart |-> IF dot = 0 THEN mant ELSE SubSeq(mant, 1, dot - 1),
     fpart |-> IF dot = 0 THEN <<>> ELSE SubSeq(mant, dot + 1, Len(mant))]

DecMantissa(s, body, e, mant) ==
    DecRecord(s, body, e # 0, IF e = 0 THEN <<>> ELSE SubSeq(body, e + 1, Len(body)),
              mant, FirstIndex(mant, {"."}))

DecExponent(s, body, e) ==
    DecMantissa(s, body, e, IF e = 0 THEN body ELSE SubSeq(body, 1, e - 1))

DecBody(s, body) == DecExponent(s, body, FirstIndex(body, {"e"}))

DecSign(s) == DecBody(s, IntBody(s))

\* Decimal() drops surrounding whitespace and every underscore and reads the
\* letters in either case
DecParts(raw) == DecSign(LowerText(RemoveChar(Strip(raw), "_")))

IsInfinityLiteral(p) ==
    p.body \in {<<"i", "n", "f">>, <<"i", "n", "f", "i", "n", "i", "t", "y">>}

\* "nan" and "snan" may be followed by the digits of a payload
IsNaNLiteral(p) ==
    /\ Len(p.body) >= 3 /\ SubSeq(p.body, 1, 3) = <<"n", "a", "n">>
    /\ AllDigits(SubSeq(p.body, 4, Len(p.body)))

IsSNaNLiteral(p) ==
    /\ Len(p.body) >= 4 /\ SubSeq(p.body, 1, 4) = <<"s", "n", "a", "n">>
    /\ AllDigits(SubSeq(p.body, 5, Len(p.body)))

IsFiniteLiteral(p) ==
    /\ AllDigits(p.ipart) /\ AllDigits(p.fpart)
    /\ Len(p.ipart) + Len(p.fpart) > 0
    /\ p.hasExp => (IntBody(p.expo) # <<>> /\ AllDigits(IntBody(p.expo)))

IsDecimalLiteral(p) ==
    IsFiniteLiteral(p) \/ IsInfinityLiteral(p) \/ IsNaNLiteral(p) \/ IsSNaNLiteral(p)

\* coefficient and exponent of a finite literal
DecCoef(p) == DigitsVal(p.ipart \o p.fpart)

DecExpValue(p) ==
    IF ~p.hasExp THEN 0
    ELSE IF SignOf(p.expo) = 1 THEN 0 - DigitsVal(IntBody(p.expo))
    ELSE DigitsVal(IntBody(p.expo))

DecExp(p) == DecExpValue(p) - Len(p.fpart)

\* n / 10^k with the digits behind the point dropped (n >= 0)
DivDown(n, k) == n \div Pow10(k)

\* n / 10^k rounded half-up (n >= 0): 0 when 10^k has more than one digit
\* more than n
DivHalfUp(n, k) ==
    IF k > NumDigits(n) THEN 0 ELSE (n + (Pow10(k) \div 2)) \div Pow10(k)

\* (quant / 10^scale).quantize(10^-scale, ROUND_HALF_UP) raises
\* InvalidOperation for an infinity, a signalling NaN, or a result of more
\* than DecimalPrecision digits
QuantizeRaises(p) ==
    \/ IsInfinityLiteral(p)
    \/ IsSNaNLiteral(p)
    \/ /\ IsFiniteLiteral(p)
       /\ DecCoef(p) # 0
       /\ NumDigits(DecCoef(p)) + DecExp(p) > DecimalPrecision

_parse_decimal_raises(value, scale) ==
    Strip(value) # <<>> /\ QuantizeRaises(DecParts(value))

Quantized(sign, c, e, scale) ==
    [nan |-> FALSE, sign |-> sign,
     coef |-> IF c = 0 THEN 0
              ELSE IF e >= 0 THEN c * Pow10(e) ELSE DivHalfUp(c, 0 - e),
     exp |-> 0 - scale]

DecimalOfParts(p, scale) ==
    IF ~IsDecimalLiteral(p) THEN None
    ELSE IF IsNaNLiteral(p)
         THEN Some([nan |-> TRUE, sign |-> p.sign,
                    coef |-> DigitsVal(SubSeq(p.body, 4, Len(p.body))), exp |-> 0])
    ELSE Some(Quantized(p.sign, DecCoef(p), DecExp(p), scale))

_parse_decimal(value, scale) ==
    IF Strip(value) = <<>> THEN None ELSE DecimalOfParts(DecParts(value), scale)

(***************************************************************************)
(* datetime.strptime(value, "%Y%m%d").date(): four year digits, then the    *)
(* month as 1[0-2], 0[1-9] or [1-9] and the day as 3[01], [12]d, 0[1-9],    *)
(* [1-9] or a space and [1-9], tried in that order; the whole text must be  *)
(* consumed and the day must exist.  A date is <<year, month, day>>.        *)
(***************************************************************************)
MonthLen(t) ==
    IF Len(t) >= 2 /\ t[1] = "1" /\ t[2] \in {"0", "1", "2"} THEN 2
    ELSE IF Len(t) >= 2 /\ t[1] = "0" /\ t[2] \in Digits \ {"0"} THEN 2
    ELSE IF Len(t) >= 1 /\ t[1] \in Digits \ {"0"} THEN 1
    ELSE 0

DayLen(t) ==
    IF Len(t) >= 2 /\ t[1] = "3" /\ t[2] \in {"0", "1"} THEN 2
    ELSE IF Len(t) >= 2 /\ t[1] \in {"1", "2"} /\ t[2] \in Digits THEN 2
    ELSE IF Len(t) >= 2 /\ t[1] = "0" /\ t[2] \in Digits \ {"0"} THEN 2
    ELSE IF Len(t) >= 1 /\ t[1] \in Digits \ {"0"} THEN 1
    ELSE IF Len(t) >= 2 /\ t[1] = " " /\ t[2] \in Digits \ {"0"} THEN 2
    ELSE 0

\* the month alternatives of the regular expression that match at the start
\* of t, longest first (the order the expression tries them)
MonthLens(t) ==
    IF MonthLen(t) = 2 /\ t[1] = "1" THEN <<2, 1>>
    ELSE IF MonthLen(t) = 0 THEN <<>> ELSE <<MonthLen(t)>>

IsLeap(y) == (y % 4 = 0 /\ y % 100 # 0) \/ y % 400 = 0

DaysInMonth(y, m) ==
    IF m = 2 THEN (IF IsLeap(y) THEN 29 ELSE 28)
    ELSE IF m \in {4, 6, 9, 11} THEN 30 ELSE 31

\* the day alternative that matches after a month of ml characters
DayLenAfter(rest, ml) == DayLen(SubSeq(rest, ml + 1, Len(rest)))

\* the (month length, day length) the match settles on, <<0, 0>> when none
SplitAmong(rest, ms) ==
    IF \E i \in 1..Len(ms) : DayLenAfter(rest, ms[i]) > 0
    THEN <<ms[CHOOSE i \in 1..Len(ms) :
                /\ DayLenAfter(rest, ms[i]) > 0
                /\ \A j \in 1..(i - 1) : DayLenAfter(rest, ms[j]) = 0],
           DayLenAfter(rest, ms[CHOOSE i \in 1..Len(ms) :
                /\ DayLenAfter(rest, ms[i]) > 0
                /\ \A j \in 1..(i - 1) : DayLenAfter(rest, ms[j]) = 0])>>
    ELSE <<0, 0>>

DateSplit(rest) == SplitAmong(rest, MonthLens(rest))

DateOfParts(y, m, d) ==
    IF y < 1 \/ d > DaysInMonth(y, m) THEN None ELSE Some(<<y, m, d>>)

DateOfSplit(value, rest, sp) ==
    IF sp[1] = 0 \/ sp[1] + sp[2] # Len(rest) THEN None
    ELSE DateOfParts(DigitsVal(SubSeq(value, 1, 4)),
                     DigitsVal(SubSeq(rest, 1, sp[1])),
                     DigitsVal(Strip(SubSeq(rest, sp[1] + 1, sp[1] + sp[2]))))

DateOfText(value, rest) == DateOfSplit(value, rest, DateSplit(rest))

DateOfStripped(value) ==
    IF value = <<>> THEN None
    ELSE IF Len(value) < 4 \/ ~AllDigits(SubSeq(value, 1, 4)) THEN None
    ELSE DateOfText(value, SubSeq(value, 5, Len(value)))

_parse_date(text) == DateOfStripped(Strip(text))

(***************************************************************************)
(* Layouts and fixed tables.                                               *)
(***************************************************************************)
MI_LAYOUT ==
    [patient_file |-> "K020.1", dx_file |-> "K020.2", item_file |-> "K020.3",
     detail_file |-> "K020.4", patient_name_start |-> 105, patient_name_length |-> 20,
     patient_identity_start |-> 125, patient_identity_length |-> 13]

AUTO_LAYOUT ==
    [patient_file |-> "C110.1", dx_file |-> "C110.2", item_file |-> "C110.3",
     detail_file |-> "C110.4", patient_name_start |-> 98, patient_name_length |-> 20,
     patient_identity_start |-> 118, patient_identity_length |-> 13]

SUPPORTED_LAYOUTS == <<MI_LAYOUT, AUTO_LAYOUT>>

\* AUTO_INSURER_COMPANIES.get(code, ""): the company names are numbered in the
\* order of the table
AUTO_INSURER_CODES ==
    << <<"0", "1">>, <<"0", "2">>, <<"0", "3">>, <<"0", "4">>, <<"0", "5">>,
       <<"0", "8">>, <<"0", "9">>, <<"1", "0">>, <<"1", "1">>, <<"1", "7">>,
       <<"2", "1">>, <<"2", "2">>, <<"2", "3">>, <<"2", "4">>, <<"2", "5">>,
       <<"2", "8">>, <<"3", "0">>, <<"4", "1">>, <<"4", "2">>, <<"4", "3">>,
       <<"4", "5">>, <<"6", "9">>, <<"9", "3">>, <<"9", "8">>, <<"9", "9">> >>

AUTO_INSURER_COMPANIES(code) ==
    IF \E i \in 1..Len(AUTO_INSURER_CODES) : AUTO_INSURER_CODES[i] = code
    THEN <<"company", CHOOSE i \in 1..Len(AUTO_INSURER_CODES) : AUTO_INSURER_CODES[i] = code>>
    ELSE <<>>

\* a gender table without the code "0"
GenderZeroUnknown(identity_suffix) ==
    IF identity_suffix = <<>> THEN None
    ELSE IF identity_suffix[1] \in {"1", "3", "5", "7", "9"} THEN Some("M")
    ELSE IF identity_suffix[1] \in {"2", "4", "6", "8"} THEN Some("F")
    ELSE None

\* the gender read from the last character of the suffix
GenderByLastDigit(identity_suffix) ==
    IF identity_suffix = <<>> THEN None
    ELSE IF identity_suffix[Len(identity_suffix)] \in {"1", "3", "5", "7", "9"} THEN Some("M")
    ELSE IF identity_suffix[Len(identity_suffix)] \in {"0", "2", "4", "6", "8"} THEN Some("F")
    ELSE None

_parse_gender(identity_suffix) ==
    IF identity_suffix = <<>> THEN None
    ELSE LET code == identity_suffix[1]
         IN IF code \in {"1", "3", "5", "7", "9"} THEN Some("M")
            ELSE IF code \in {"0", "2", "4", "6", "8"} THEN Some("F")
            ELSE None

\* a derivation that looks at the special code only for a medical-aid code
\* the table does not hold
NhisMedicalFirst(medical_code, special_code) ==
    CASE medical_code = <<"1">> -> <<"7">>
      [] medical_code = <<"2">> -> <<"8">>
      [] medical_code = <<"4">> -> <<"4">>
      [] medical_code = <<"6">> -> <<"9">>
      [] medical_code = <<"8">> -> <<"9">>
      [] OTHER -> IF special_code = <<"C">> THEN <<"1", "1">>
                  ELSE IF special_code \in {<<"E">>, <<"F">>} THEN <<"1", "2">>
                  ELSE IF medical_code = <<>> THEN <<"1">> ELSE medical_code

_derive_insurance_nhis_type(medical_code, special_code) ==
    IF special_code = <<"C">> THEN <<"1", "1">>
    ELSE IF special_code \in {<<"E">>, <<"F">>} THEN <<"1", "2">>
    ELSE CASE medical_code = <<>> -> <<"1">>
           [] medical_code = <<"1">> -> <<"7">>
           [] medical_code = <<"2">> -> <<"8">>
           [] medical_code = <<"4">> -> <<"4">>
           [] medical_code = <<"6">> -> <<"9">>
           [] medical_code = <<"8">> -> <<"9">>
           [] OTHER -> medical_code

(***************************************************************************)
(* Records.                                                                *)
(***************************************************************************)
\* a Python dict as a function; d[k] = v
Put(d, k, v) == [x \in DOMAIN d \cup {k} |-> IF x = k THEN v ELSE d[x]]

EmptyDict == [x \in {} |-> {}]

\* EncounterRecord(encounter_no=encounter_no)
EncounterRecord(encounter_no) ==
    [encounter_no |-> encounter_no, patient |-> None, encounter_date |-> None,
     department_code |-> <<>>, license_type_code |-> <<>>, license_no |-> <<>>,
     dx_list |-> <<>>, items |-> <<>>, treatment_days |-> None,
     inpatient_days |-> None, result_code |-> <<>>, is_gongsang |-> FALSE,
     copay_type_code |-> <<>>, insurance |-> None, invoice |-> None]

\* truth value of an Optional[int]: None and 0 are false
TruthyInt(v) == v # None /\ v[1] # 0

\* truth value of a string, of an Optional record or of an Optional date
Truthy(v) == v # <<>>

\* dict.setdefault(encounter_no, EncounterRecord(encounter_no=encounter_no))
SetDefault(encounters, encounter_no) ==
    IF encounter_no \in DOMAIN encounters THEN encounters
    ELSE Put(encounters, encounter_no, EncounterRecord(encounter_no))

(***************************************************************************)
(* The header pass: one line of _parse_patient_file.                       *)
(***************************************************************************)
\* encounter_no = f"{claim_no}{statement_no}"
HeaderKey(line) == SliceText(line, 1, 10) \o SliceText(line, 11, 5)

PatientOfLine(line, layout) ==
    LET claim_no == SliceText(line, 1, 10)
        statement_no == SliceText(line, 11, 5)
        identity_raw == SliceText(line, layout.patient_identity_start,
                                  layout.patient_identity_length)
        identity == RemoveChar(identity_raw, "-")
        identity_suffix == SubSeq(identity, 7, Len(identity))
    IN [encounter_no |-> claim_no \o statement_no,
        claim_no |-> claim_no,
        statement_no |-> statement_no,
        patient_name |-> SliceText(line, layout.patient_name_start,
                                   layout.patient_name_length),
        patient_identity_prefix |-> SubSeq(identity, 1, Min(6, Len(identity))),
        patient_identity_suffix |-> identity_suffix,
        patient_gender |-> _parse_gender(identity_suffix),
        \* the dict extra_fields: <<>> when empty, else <<its entries>>
        extra_fields |->
            IF layout = AUTO_LAYOUT
            THEN Some([auto_accident_no |-> SliceText(line, 51, 30),
                  auto_guarantee_no |-> SliceText(line, 81, 17),
                  auto_visit_days |-> SliceText(line, 131, 3),
                  auto_inpatient_days |-> SliceText(line, 134, 3),
                  auto_result_code |-> SliceText(line, 137, 1),
                  auto_total_cost |-> SliceText(line, 138, 10),
                  auto_patient_payment |-> SliceText(line, 148, 10),
                  auto_claim_amount |-> SliceText(line, 158, 10),
                  auto_insurer_code |-> SliceText(line, 168, 2)])
            ELSE <<>>]

InsuranceRecord(encounter_no) ==
    [encounter_no |-> encounter_no, insurance_type_code |-> <<>>,
     insurance_nhis_type |-> <<>>, insurance_nhis_no |-> <<>>,
     insurance_form_no |-> <<>>, insurance_provider_code |-> <<>>,
     insurance_payer_code |-> <<>>, insurance_claim_type |-> <<>>,
     insurance_subscriber_name |-> <<>>, insurance_medical_aid_code |-> <<>>,
     insurance_special_code |-> <<>>, insurance_copay_code |-> <<>>,
     claim_no |-> <<>>, statement_no |-> <<>>, insurance_ta_reg_no |-> <<>>,
     insurance_ta_ins_no |-> <<>>, insurance_ta_company_code |-> <<>>,
     insurance_ta_company_name |-> <<>>]

InvoiceRecord(encounter_no) ==
    [encounter_no |-> encounter_no, invoice_sum |-> 0, invoice_insurance_sum |-> 0,
     invoice_insurance_patient_burden |-> 0, invoice_insurance_nhis_burden |-> 0,
     invoice_subsidy |-> 0, invoice_is_fixed_patient_burden |-> FALSE,
     invoice_patient_max_excess |-> 0, invoice_disabled_support |-> 0]

InsuranceOfLine(line, layout) ==
    LET claim_no == SliceText(line, 1, 10)
        statement_no == SliceText(line, 11, 5)
        encounter_no == claim_no \o statement_no
    IN IF layout = MI_LAYOUT
       THEN LET medical_aid_code == SliceText(line, 39, 1)
                special_code == SliceText(line, 40, 1)
            IN [InsuranceRecord(encounter_no) EXCEPT
                  !.insurance_type_code = medical_aid_code,
                  !.insurance_nhis_type =
                      _derive_insurance_nhis_type(medical_aid_code, special_code),
                  !.insurance_nhis_no = SliceText(line, 85, 20),
                  !.insurance_form_no = SliceText(line, 16, 4),
                  !.insurance_provider_code = SliceText(line, 20, 8),
                  !.insurance_payer_code = SliceText(line, 28, 11),
                  !.insurance_claim_type = SliceText(line, 42, 23),
                  !.insurance_subscriber_name = SliceText(line, 65, 20),
                  !.insurance_medical_aid_code = medical_aid_code,
                  !.insurance_special_code = special_code,
                  !.insurance_copay_code = SliceText(line, 41, 1),
                  !.claim_no = claim_no,
                  !.statement_no = statement_no]
       ELSE LET auto_insurer_code == SliceText(line, 168, 2)
            IN [InsuranceRecord(encounter_no) EXCEPT
                  !.insurance_type_code = <<"2">>,
                  !.insurance_form_no = SliceText(line, 16, 4),
                  !.insurance_provider_code = SliceText(line, 20, 8),
                  !.insurance_payer_code = auto_insurer_code,
                  !.insurance_claim_type = SliceText(line, 28, 23),
                  !.insurance_subscriber_name =
                      SliceText(line, layout.patient_name_start,
                                layout.patient_name_length),
                  !.insurance_ta_reg_no = SliceText(line, 51, 30),
                  !.insurance_ta_ins_no = SliceText(line, 81, 17),
                  !.insurance_ta_company_code = auto_insurer_code,
                  !.insurance_ta_company_name = AUTO_INSURER_COMPANIES(auto_insurer_code),
                  !.claim_no = claim_no,
                  !.statement_no = statement_no]

InvoiceOfLine(line, layout) ==
    LET encounter_no == HeaderKey(line)
    IN IF layout = MI_LAYOUT
       THEN [InvoiceRecord(encounter_no) EXCEPT
               !.invoice_sum = _parse_amount(SliceText(line, 176, 10)),
               !.invoice_insurance_sum = _parse_amount(SliceText(line, 176, 10)),
               !.invoice_insurance_patient_burden = _parse_amount(SliceText(line, 186, 10)),
               !.invoice_insurance_nhis_burden = _parse_amount(SliceText(line, 206, 10)),
               !.invoice_subsidy = _parse_amount(SliceText(line, 216, 10)),
               !.invoice_is_fixed_patient_burden = (SliceText(line, 41, 1) = <<"2">>),
               !.invoice_patient_max_excess = _parse_amount(SliceText(line, 196, 10)),
               !.invoice_disabled_support = _parse_amount(SliceText(line, 226, 10))]
       ELSE [InvoiceRecord(encounter_no) EXCEPT
               !.invoice_sum = _parse_amount(SliceText(line, 138, 10)),
               !.invoice_insurance_sum = _parse_amount(SliceText(line, 138, 10)),
               !.invoice_insurance_patient_burden = _parse_amount(SliceText(line, 148, 10)),
               !.invoice_insurance_nhis_burden = _parse_amount(SliceText(line, 158, 10))]

MetaOfLine(line, layout) ==
    IF layout = MI_LAYOUT
    THEN [treatment_days |-> _parse_int(SliceText(line, 138, 3)),
          inpatient_days |-> _parse_int(SliceText(line, 141, 3)),
          result_code |-> SliceText(line, 175, 1),
          is_gongsang |-> (SliceText(line, 40, 1) = <<"1">>),
          copay_type_code |-> SliceText(line, 41, 1)]
    ELSE [treatment_days |-> _parse_int(SliceText(line, 131, 3)),
          inpatient_days |-> _parse_int(SliceText(line, 134, 3)),
          result_code |-> SliceText(line, 137, 1),
          is_gongsang |-> FALSE,
          copay_type_code |-> <<>>]

\* the four dictionaries of _parse_patient_file
NoPatientMaps ==
    [patients |-> EmptyDict, insurances |-> EmptyDict, invoices |-> EmptyDict,
     encounter_meta |-> EmptyDict]

\* the body of the loop of _parse_patient_file for one line
ParsePatientLine(maps, line, layout) ==
    LET encounter_no == HeaderKey(line)
    IN [patients |-> Put(maps.patients, encounter_no, PatientOfLine(line, layout)),
        insurances |-> Put(maps.insurances, encounter_no, InsuranceOfLine(line, layout)),
        invoices |-> Put(maps.invoices, encounter_no, InvoiceOfLine(line, layout)),
        encounter_meta |-> Put(maps.encounter_meta, encounter_no, MetaOfLine(line, layout))]

RECURSIVE _parse_patient_file(_, _, _)
_parse_patient_file(maps, lines, layout) ==
    IF lines = <<>> THEN maps
    ELSE _parse_patient_file(ParsePatientLine(maps, Head(lines), layout), Tail(lines), layout)

\* the loop of _parse_claim_dir that turns the patient map into encounters
BuildEncounters(maps) ==
    [encounter_no \in DOMAIN maps.patients |->
        LET meta == maps.encounter_meta[encounter_no]
        IN [EncounterRecord(encounter_no) EXCEPT
              !.patient = Some(maps.patients[encounter_no]),
              !.treatment_days = meta.treatment_days,
              !.inpatient_days = meta.inpatient_days,
              !.result_code = meta.result_code,
              !.is_gongsang = meta.is_gongsang,
              !.copay_type_code = meta.copay_type_code,
              !.insurance = Some(maps.insurances[encounter_no]),
              !.invoice = Some(maps.invoices[encounter_no])]]

(***************************************************************************)
(* The diagnosis, item and detail passes: the loop body for one line.      *)
(***************************************************************************)
EncounterDxRecord(encounter_no, dx_type_code, kcd_code) ==
    [encounter_no |-> encounter_no, dx_type_code |-> dx_type_code, kcd_code |-> kcd_code]

\* the EncounterDxRecord _attach_dx builds from a line
DxRowOfLine(line) ==
    EncounterDxRecord(SliceText(line, 1, 15), SliceText(line, 16, 1), SliceText(line, 17, 6))

\* a backfill that lets every line carrying a value overwrite the field
Overwrite(current, value) == IF Truthy(value) THEN value ELSE current

\* "if value and not encounter_record.field: encounter_record.field = value"
Backfill(current, value) == IF Truthy(value) /\ ~Truthy(current) THEN value ELSE current

AttachDxLine(encounters, line) ==
    LET encounter_no == SliceText(line, 1, 15)
        with == SetDefault(encounters, encounter_no)
    IN IF encounter_no = <<>> THEN encounters
       ELSE Put(with, encounter_no,
                [with[encounter_no] EXCEPT
                   !.encounter_date = Backfill(@, _parse_date(SliceText(line, 25, 8))),
                   !.department_code = Backfill(@, SliceText(line, 23, 2)),
                   !.license_type_code = Backfill(@, SliceText(line, 33, 1)),
                   !.license_no = Backfill(@, SliceText(line, 34, 10)),
                   !.dx_list = Append(@, DxRowOfLine(line))])

\* int(days_str) raises ValueError for a text str.isdigit() accepts and int()
\* does not
ItemDaysRaises(line) ==
    LET days_str == SliceText(line, 53, 3)
    IN IsDigitStr(days_str) /\ ~IsIntLiteral(days_str)

\* the exception the loop body of _attach_items ends with, "" when none
AttachItemLineError(line) ==
    IF SliceText(line, 1, 15) = <<>> THEN ""
    ELSE IF _parse_decimal_raises(SliceRaw(line, 46, 7), 2) THEN "InvalidOperation"
    ELSE IF ItemDaysRaises(line) THEN "ValueError"
    ELSE ""

EncounterItemRecord(encounter_no, line_no, item_code, daily_amount, days) ==
    [encounter_no |-> encounter_no, line_no |-> line_no, item_code |-> item_code,
     daily_amount |-> daily_amount, days |-> days, detail_texts |-> <<>>]

ItemOfLine(line) ==
    LET days_str == SliceText(line, 53, 3)
    IN EncounterItemRecord(SliceText(line, 1, 15), SliceText(line, 20, 4),
                           SliceText(line, 25, 9),
                           _parse_decimal(SliceRaw(line, 46, 7), 2),
                           IF IsDigitStr(days_str) THEN Some(IntValue(days_str)) ELSE None)

\* the loop body of _attach_items where it does not raise
AttachItemLine(encounters, line) ==
    LET encounter_no == SliceText(line, 1, 15)
        with == SetDefault(encounters, encounter_no)
    IN IF encounter_no = <<>> THEN encounters
       ELSE Put(with, encounter_no,
                [with[encounter_no] EXCEPT !.items = Append(@, ItemOfLine(line))])

\* EncounterItemRecord.add_detail_text
add_detail_text(item, text) ==
    LET cleaned == Strip(text)
    IN IF cleaned # <<>> THEN [item EXCEPT !.detail_texts = Append(@, cleaned)] ELSE item

\* the first item whatever its line_no, 0 when there is none
FirstItem(items, line_no) == IF items = <<>> THEN 0 ELSE 1

\* next((item for item in items if item.line_no == line_no), None), as the
\* index of the item, 0 for None
TargetItem(items, line_no) ==
    IF \E i \in 1..Len(items) : items[i].line_no = line_no
    THEN CHOOSE i \in 1..Len(items) :
            items[i].line_no = line_no /\ \A j \in 1..(i - 1) : items[j].line_no # line_no
    ELSE 0

\* a scope test that lets every line through
AnyScope(occurrence_scope) == TRUE

\* the scope test of _attach_details
IsLineLevel(occurrence_scope) == occurrence_scope = <<"2">>

AttachDetailLine(encounters, line) ==
    LET encounter_no == SliceText(line, 1, 15)
        occurrence_scope == SliceText(line, 16, 1)
        line_no == SliceText(line, 17, 4)
        detail_text == RStrip(SliceRaw(line, 26, 700))
        with == SetDefault(encounters, encounter_no)
        r == with[encounter_no]
        target == TargetItem(r.items, line_no)
    IN IF encounter_no = <<>> THEN encounters
       ELSE IF ~IsLineLevel(occurrence_scope) THEN encounters
       ELSE IF target = 0 THEN with
       ELSE Put(with, encounter_no,
                [r EXCEPT !.items[target] = add_detail_text(@, detail_text)])

(***************************************************************************)
(* Files.  A file of the tree is [state, lines]: state is "missing",       *)
(* "unreadable" (it exists and opening it raises OSError: a directory of   *)
(* that name, no permission) or "ok".                                      *)
(***************************************************************************)
MissingFile == [state |-> "missing", lines |-> <<>>]

UnreadableFile == [state |-> "unreadable", lines |-> <<>>]

File(lines) == [state |-> "ok", lines |-> lines]

\* _iter_lines: nothing for a missing file, else the lines without their
\* line ends
_iter_lines(file) ==
    IF file.state = "missing" THEN <<>>
    ELSE [i \in 1..Len(file.lines) |-> RStripNewline(file.lines[i])]

\* an open that raises for every file it cannot read, the missing ones too
RaisesUnlessOk(file) == file.state # "ok"

\* opening the file raises OSError: never for a missing file, which is not opened
_iter_lines_raises(file) == file.state = "unreadable"

RECURSIVE _attach_dx(_, _)
_attach_dx(encounters, lines) ==
    IF lines = <<>> THEN encounters
    ELSE _attach_dx(AttachDxLine(encounters, Head(lines)), Tail(lines))

RECURSIVE _attach_items(_, _)
_attach_items(encounters, lines) ==
    IF lines = <<>> THEN encounters
    ELSE _attach_items(AttachItemLine(encounters, Head(lines)), Tail(lines))

\* the exception _attach_items ends with: that of its first raising line
_attach_items_error(lines) ==
    IF \E i \in 1..Len(lines) : AttachItemLineError(lines[i]) # ""
    THEN AttachItemLineError(lines[CHOOSE i \in 1..Len(lines) :
            /\ AttachItemLineError(lines[i]) # ""
            /\ \A j \in 1..(i - 1) : AttachItemLineError(lines[j]) = ""])
    ELSE ""

RECURSIVE _attach_details(_, _)
_attach_details(encounters, lines) ==
    IF lines = <<>> THEN encounters
    ELSE _attach_details(AttachDetailLine(encounters, Head(lines)), Tail(lines))

\* the exception _parse_claim_dir ends with for the four files of a
\* directory, "" when it returns
ParseClaimDirError(dir) ==
    IF _iter_lines_raises(dir.patient) THEN "OSError"
    ELSE IF _iter_lines_raises(dir.dx) THEN "OSError"
    ELSE IF _iter_lines_raises(dir.item) THEN "OSError"
    ELSE IF _attach_items_error(_iter_lines(dir.item)) # ""
         THEN _attach_items_error(_iter_lines(dir.item))
    ELSE IF _iter_lines_raises(dir.detail) THEN "OSError"
    ELSE ""

\* the encounter map _parse_claim_dir returns
_parse_claim_dir(dir, layout) ==
    LET maps == _parse_patient_file(NoPatientMaps, _iter_lines(dir.patient), layout)
        e0 == BuildEncounters(maps)
        e1 == _attach_dx(e0, _iter_lines(dir.dx))
        e2 == _attach_items(e1, _iter_lines(dir.item))
    IN _attach_details(e2, _iter_lines(dir.detail))

(***************************************************************************)
(* The batch merge.                                                        *)
(***************************************************************************)
\* the assignments of _merge_records to the single-valued fields
MergeScalars(target, source) ==
    [target EXCEPT
       !.patient = IF Truthy(source.patient) /\ ~Truthy(@) THEN source.patient ELSE @,
       !.encounter_date =
           IF Truthy(source.encounter_date) /\ ~Truthy(@) THEN source.encounter_date ELSE @,
       !.department_code =
           IF Truthy(source.department_code) /\ ~Truthy(@) THEN source.department_code ELSE @,
       !.license_type_code =
           IF Truthy(source.license_type_code) /\ ~Truthy(@)
           THEN source.license_type_code ELSE @,
       !.license_no = IF Truthy(source.license_no) /\ ~Truthy(@) THEN source.license_no ELSE @,
       !.treatment_days =
           IF TruthyInt(source.treatment_days) /\ ~TruthyInt(@)
           THEN source.treatment_days ELSE @,
       !.inpatient_days =
           IF TruthyInt(source.inpatient_days) /\ ~TruthyInt(@)
           THEN source.inpatient_days ELSE @,
       !.result_code = IF Truthy(source.result_code) /\ ~Truthy(@) THEN source.result_code ELSE @,
       !.copay_type_code =
           IF Truthy(source.copay_type_code) /\ ~Truthy(@) THEN source.copay_type_code ELSE @,
       !.is_gongsang = IF source.is_gongsang /\ ~@ THEN source.is_gongsang ELSE @,
       !.insurance = IF Truthy(source.insurance) /\ ~Truthy(@) THEN source.insurance ELSE @,
       !.invoice = IF Truthy(source.invoice) /\ ~Truthy(@) THEN source.invoice ELSE @]

\* a merge that appends only the rows the target does not hold yet
ExtendListsDistinct(target, source) ==
    [target EXCEPT
       !.dx_list = @ \o SelectSeq(source.dx_list, LAMBDA r : r \notin Range(@)),
       !.items = @ \o SelectSeq(source.items, LAMBDA r : r \notin Range(@))]

\* target.dx_list.extend(source.dx_list); target.items.extend(source.items)
ExtendLists(target, source) ==
    [target EXCEPT !.dx_list = @ \o source.dx_list, !.items = @ \o source.items]

_merge_records(target, source) == ExtendLists(MergeScalars(target, source), source)

\* the loop of parse_with_status over claim_encounters.items()
MergeInto(encounters, claim_encounters) ==
    [encounter_no \in DOMAIN encounters \cup DOMAIN claim_encounters |->
        IF encounter_no \notin DOMAIN claim_encounters THEN encounters[encounter_no]
        ELSE IF encounter_no \in DOMAIN encounters
             THEN _merge_records(encounters[encounter_no], claim_encounters[encounter_no])
             ELSE claim_encounters[encounter_no]]

(***************************************************************************)
(* Paths.  A path is the text of str(path); sorted(..., key=str) orders    *)
(* texts by the code points of their characters.                           *)
(***************************************************************************)
Ord(c) ==
    CASE c = "/" -> 47 [] c = "b" -> 98 [] OTHER -> 48 + DigitVal(c)

RECURSIVE StrLess(_, _)
StrLess(a, b) ==
    IF b = <<>> THEN FALSE
    ELSE IF a = <<>> THEN TRUE
    ELSE IF Ord(a[1]) # Ord(b[1]) THEN Ord(a[1]) < Ord(b[1])
    ELSE StrLess(Tail(a), Tail(b))

\* list.insert of one (path, layout) item into a list sorted by str(path)
RECURSIVE InsertSorted(_, _)
InsertSorted(item, sorted) ==
    IF sorted = <<>> THEN <<item>>
    ELSE IF StrLess(item[1], Head(sorted)[1]) THEN <<item>> \o sorted
    ELSE <<Head(sorted)>> \o InsertSorted(item, Tail(sorted))

\* the items in the order the dict holds them
InsertionOrder(items) == items

\* sorted(candidates.items(), key=lambda item: str(item[0]))
RECURSIVE SortItems(_)
SortItems(items) ==
    IF items = <<>> THEN <<>>
    ELSE InsertSorted(items[Len(items)], SortItems(SubSeq(items, 1, Len(items) - 1)))

\* candidates[path] = layout on a dict kept as the list of its items
DictAssign(items, path, layout) ==
    IF \E i \in 1..Len(items) : items[i][1] = path
    THEN [i \in 1..Len(items) |-> IF items[i][1] = path THEN <<path, layout>> ELSE items[i]]
    ELSE Append(items, <<path, layout>>)

\* candidates.setdefault(path, layout)
DictSetDefault(items, path, layout) ==
    IF \E i \in 1..Len(items) : items[i][1] = path THEN items
    ELSE Append(items, <<path, layout>>)

RECURSIVE SetDefaultAll(_, _, _)
SetDefaultAll(items, paths, layout) ==
    IF paths = <<>> THEN items
    ELSE SetDefaultAll(DictSetDefault(items, Head(paths), layout), Tail(paths), layout)

Base == <<"b">>

DirNames == <<"1", "2", "3", "4", "5", "6", "7", "8", "9">>

\* the directories of the tree: the base directory and its subdirectories
AllDirs == {Base} \cup {Base \o <<"/", DirNames[i]>> : i \in 1..(MaxDirs - 1)}

HeaderFileNames == {MI_LAYOUT.patient_file, AUTO_LAYOUT.patient_file}

\* the orders in which a directory walk can yield the members of a set
Orders(S) ==
    {o \in [1..Cardinality(S) -> S] : \A i, j \in 1..Cardinality(S) : o[i] = o[j] => i = j}

\* one round of the loop of _discover_claim_dirs: the layout, the tree and
\* the order in which rglob yields the directories holding the header file
DiscoverLayout(items, layout, t, order) ==
    LET direct == IF layout.patient_file \in t[Base]
                  THEN DictAssign(items, Base, layout) ELSE items
    IN SetDefaultAll(direct, order, layout)

_discover_claim_dirs(t, orderMI, orderAUTO) ==
    SortItems(DiscoverLayout(DiscoverLayout(<<>>, SUPPORTED_LAYOUTS[1], t, orderMI),
                             SUPPORTED_LAYOUTS[2], t, orderAUTO))

\* the directories of tree t that hold the header file of a layout
Holding(t, layout) == {d \in DOMAIN t : layout.patient_file \in t[d]}

(***************************************************************************)
(* The claim month of a directory.                                         *)
(***************************************************************************)
UnknownMonth == <<"unknown">>

\* _extract_claim_month: the first six characters of the claim_no of the
\* first line of the header file
_extract_claim_month(file) ==
    IF file.state # "ok" \/ file.lines = <<>> THEN None
    ELSE LET claim_no == SliceText(RStripNewline(file.lines[1]), 1, 10)
         IN IF Len(claim_no) < 6 THEN None ELSE Some(SubSeq(claim_no, 1, 6))

_format_month(value) ==
    IF value = <<>> \/ Len(value) # 6 \/ ~IsDigitStr(value) THEN UnknownMonth
    ELSE SubSeq(value, 1, 4) \o <<".">> \o SubSeq(value, 5, 6)

MonthKey(file) ==
    LET month == _extract_claim_month(file)
    IN IF month # None /\ month[1] # <<>> THEN _format_month(month[1]) ELSE UnknownMonth

(***************************************************************************)
(* Input lines.  Place lays field texts out at their 1-based byte offsets  *)
(* in a line of blanks; the offsets are those the passes read.             *)
(***************************************************************************)
Place(width, fields) ==
    [i \in 1..width |->
        IF \E f \in fields : f[1] <= i /\ i < f[1] + Len(f[2])
        THEN LET f == CHOOSE f \in fields : f[1] <= i /\ i < f[1] + Len(f[2])
             IN f[2][i - f[1] + 1]
        ELSE " "]

HeaderLine(layout, h) ==
    IF layout = MI_LAYOUT
    THEN Place(235, {<<1, h.claim_no>>, <<11, h.statement_no>>, <<39, h.medical>>,
                     <<40, h.special>>, <<41, h.copay>>,
                     <<layout.patient_name_start, h.name>>,
                     <<layout.patient_identity_start, h.identity>>,
                     <<138, h.tdays>>, <<141, h.idays>>, <<175, h.result>>,
                     <<176, h.amount>>})
    ELSE Place(169, {<<1, h.claim_no>>, <<11, h.statement_no>>,
                     <<layout.patient_name_start, h.name>>,
                     <<layout.patient_identity_start, h.identity>>,
                     <<131, h.tdays>>, <<134, h.idays>>, <<137, h.result>>,
                     <<138, h.amount>>, <<168, h.insurer>>})

DxLine(key, dx_type, kcd, dept, date, lic_type, lic_no) ==
    Place(43, {<<1, key>>, <<16, dx_type>>, <<17, kcd>>, <<23, dept>>, <<25, date>>,
               <<33, lic_type>>, <<34, lic_no>>})

ItemLine(key, line_no, code, amount, days) ==
    Place(55, {<<1, key>>, <<20, line_no>>, <<25, code>>, <<46, amount>>, <<53, days>>})

DetailLine(key, scope, line_no, text) ==
    Place(25 + Len(text), {<<1, key>>, <<16, scope>>, <<17, line_no>>, <<26, text>>})

Claim1 == <<"2", "0", "2", "4", "0", "1", "0", "0", "0", "1">>

St1 == <<"0", "0", "0", "0", "1">>

St2 == <<"0", "0", "0", "0", "2">>

K1 == Claim1 \o St1

K2 == Claim1 \o St2

Blank == <<" ">>

\* header field texts: A and B supply every day count, Z has zero days and
\* blank codes
HdrA(st) ==
    [claim_no |-> Claim1, statement_no |-> st, name |-> <<"A">>,
     identity |-> <<"9", "0", "0", "1", "0", "1", "1", "2", "3", "4", "5", "6", "7">>,
     medical |-> <<"1">>, special |-> <<"1">>, copay |-> <<"2">>,
     tdays |-> <<"0", "0", "3">>, idays |-> <<"0", "0", "1">>, result |-> <<"1">>,
     amount |-> <<"1", ",", "0", "0", "0">>, insurer |-> <<"0", "8">>]

HdrB(st) ==
    [claim_no |-> Claim1, statement_no |-> st, name |-> <<"B">>,
     identity |-> <<"8", "5", "0", "2", "0", "2", "-", "2", "3", "4", "5", "6", "7">>,
     medical |-> <<"2">>, special |-> <<"C">>, copay |-> <<"1">>,
     tdays |-> <<"0", "0", "5">>, idays |-> <<"0", "0", "2">>, result |-> <<"2">>,
     amount |-> <<"2", "0", "0", "0">>, insurer |-> <<"7", "7">>]

HdrZ(st) ==
    [claim_no |-> Claim1, statement_no |-> st, name |-> <<"Z">>,
     identity |-> Blank, medical |-> Blank, special |-> Blank, copay |-> Blank,
     tdays |-> <<"0", "0", "0">>, idays |-> <<" ", " ", "x">>, result |-> Blank,
     amount |-> <<"x">>, insurer |-> Blank]

Date1 == <<"2", "0", "2", "4", "0", "1", "0", "5">>

Date2 == <<"2", "0", "2", "4", "0", "2", "2", "0">>

BadDate == <<"2", "0", "2", "4", "1", "3", "0", "1">>

Dx1(key) == DxLine(key, <<"1">>, <<"A", "0", "0", "1">>, <<"0", "1">>, Date1, <<"1">>, <<"1", "1">>)

Dx2(key) == DxLine(key, <<"2">>, <<"B", "0", "2">>, <<"0", "2">>, Date2, <<"2">>, <<"2", "2">>)

DxBare(key) == DxLine(key, <<"1">>, <<"C", "3">>, Blank, BadDate, Blank, Blank)

Amount100 == <<"0", "0", "1", "0", "0", "0", "0">>

Item1(key) ==
    ItemLine(key, <<"0", "0", "0", "1">>, <<"1", "2", "3">>, Amount100, <<"0", "0", "7">>)

Item2(key) ==
    ItemLine(key, <<"0", "0", "0", "2">>, <<"4", "5", "6">>, <<"x">>, <<" ", "x">>)

\* an item line whose day count is the superscript two: isdigit() accepts it
\* and int() raises
ItemSup2(key) ==
    ItemLine(key, <<"0", "0", "0", "3">>, <<"7">>, Amount100, <<"xA9", "xF7">>)

\* an item line whose amount is an infinity: quantize raises
ItemInf(key) ==
    ItemLine(key, <<"0", "0", "0", "4">>, <<"8">>, <<"I", "n", "f">>, Blank)

Detail(key, scope, line_no) == DetailLine(key, scope, line_no, <<"n", "o", "t", "e">>)

Line1 == <<"0", "0", "0", "1">>

Line2 == <<"0", "0", "0", "2">>

\* a directory of the tree: its header, diagnosis, item and detail file
Dir(patient, dx, item, detail) ==
    [patient |-> patient, dx |-> dx, item |-> item, detail |-> detail]

\* the directory contents the batch run draws from
DirInputs(layout) ==
    LET H(h) == File(<<HeaderLine(layout, h)>>)
    IN { Dir(H(HdrA(St1)), File(<<Dx1(K1)>>), File(<<Item1(K1)>>),
             File(<<Detail(K1, <<"2">>, Line1)>>)),
         Dir(H(HdrB(St1)), File(<<Dx2(K1)>>), File(<<Item2(K1)>>), MissingFile),
         Dir(H(HdrZ(St1)), File(<<DxBare(K1)>>), MissingFile, MissingFile),
         Dir(H(HdrZ(St1)), File(<<Dx2(K1)>>), MissingFile,
             File(<<Detail(K1, <<"2">>, Line1)>>)),
         Dir(H(HdrA(St1)), MissingFile, MissingFile, MissingFile),
         Dir(H(HdrA(St2)), File(<<Dx1(K1), Dx2(K2)>>), File(<<Item1(K2)>>), MissingFile),
         Dir(File(<<>>), File(<<DxBare(K1), Dx2(K1)>>), File(<<Item2(K1)>>), MissingFile),
         Dir(H(HdrA(St1)), File(<<Dx1(K1)>>), File(<<Item1(K1), ItemSup2(K1)>>), MissingFile),
         Dir(H(HdrB(St1)), File(<<Dx2(K1)>>), File(<<ItemInf(K1)>>), MissingFile),
         Dir(H(HdrB(St2)), UnreadableFile, MissingFile, MissingFile),
         Dir(UnreadableFile, MissingFile, MissingFile, MissingFile) }

(***************************************************************************)
(* State.                                                                  *)
(*                                                                         *)
(* Spec runs EDIClaimParser.parse(): discovery, then the loop of           *)
(* parse_with_status over the claim directories, then the strict check.    *)
(* SpecDir runs _parse_claim_dir on one directory, line by line.           *)
(***************************************************************************)
VARIABLES
    tree,          \* the input tree: directory -> the header file names it holds
    pc,            \* "start", "loop", "returned", "done" or "raised"
    claim_dirs,    \* the sorted (directory, layout) list of parse_with_status
    idx,           \* position of the loop in claim_dirs
    encounters,    \* the merged encounter map
    successes,     \* list of directories
    failures,      \* directory -> message
    month_map,     \* [mi, auto]: the month keys of the two buckets
    error,         \* the exception parse() ended with, "" when none
    parse_result,  \* what parse() returned: None or <<encounter map>>
    parsed,        \* history: directory -> the map _parse_claim_dir returned for it
    visited,       \* history: the directories in the order the loop took them
    dlayout,       \* SpecDir: the layout of the directory
    dpc,           \* SpecDir: the pass _parse_claim_dir is in
    maps,          \* SpecDir: the dictionaries of _parse_patient_file
    denc,          \* SpecDir: the encounter map of _parse_claim_dir
    nread,         \* SpecDir: the number of lines read so far
    hist,          \* SpecDir: history: the lines read so far, each with its pass
    fstate,        \* SpecDir: history: file -> how _iter_lines found it
    derr,          \* SpecDir: the exception _parse_claim_dir ended with
    arg1,          \* SpecFn: the text a field function is given
    arg2,          \* SpecFn: the second text, for the functions of two texts
    fpc,           \* SpecFn: "input" before the call, "returned" after it
    fout,          \* SpecFn: [fn, value]: the function called and what it returned
    data_root,     \* SpecProc: doc_id -> [kind, mtime] of the batch's payload
    sam_in,        \* SpecProc: the decoder's output files: name -> content
    decoded_root,  \* SpecProc: doc_id -> the files of its decoded directory
    run,           \* SpecProc: the number of runs of process_batches started
    ppc,           \* SpecProc: "idle", "loop" or "returned"
    max_batches,   \* SpecProc: the limit of the run: None or <<n>>
    batches,       \* SpecProc: the list discover_batches returned
    bidx,          \* SpecProc: position of the loop in batches
    processed,     \* SpecProc: the counter of process_batches
    new_batch_dirs, \* SpecProc: the list process_batches returns
    attempts,      \* SpecProc: history: the decode attempts of all runs
    arrivals,      \* SpecProc: history: the batches that arrived, each with run
    run_button,    \* SpecUI: the state of the run button: "normal" or "disabled"
    source_var,    \* SpecUI: the text of the source entry
    output_var,    \* SpecUI: the text of the output entry
    after_queue,   \* SpecUI: the callbacks given to root.after(0, ...), oldest first
    threads,       \* SpecUI: the worker threads started: [pc, raised] of each
    dialogs,       \* SpecUI: the message boxes that are open
    warned         \* SpecUI: the title of the last warning _run_batch showed

bvars ==
    <<tree, pc, claim_dirs, idx, encounters, successes, failures, month_map, error,
      parse_result, parsed, visited>>

dvars == <<dlayout, dpc, maps, denc, nread, hist, fstate, derr>>

fvars == <<arg1, arg2, fpc, fout>>

pvars ==
    <<data_root, sam_in, decoded_root, run, ppc, max_batches, batches, bidx, processed,
      new_batch_dirs, attempts, arrivals>>

uvars == <<run_button, source_var, output_var, after_queue, threads, dialogs, warned>>

vars == <<bvars, dvars, fvars, pvars, uvars>>

Unopened == [patient |-> "unopened", dx |-> "unopened", item |-> "unopened", detail |-> "unopened"]

DirIdle ==
    /\ dlayout = MI_LAYOUT
    /\ dpc = "idle"
    /\ maps = NoPatientMaps
    /\ denc = EmptyDict
    /\ nread = 0
    /\ hist = <<>>
    /\ fstate = Unopened
    /\ derr = ""

NoCall == [fn |-> "", value |-> <<>>]

FnIdle ==
    /\ arg1 = <<>>
    /\ arg2 = <<>>
    /\ fpc = "idle"
    /\ fout = NoCall

ProcIdle ==
    /\ data_root = EmptyDict
    /\ sam_in = EmptyDict
    /\ decoded_root = EmptyDict
    /\ run = 0
    /\ ppc = "idle"
    /\ max_batches = None
    /\ batches = <<>>
    /\ bidx = 0
    /\ processed = 0
    /\ new_batch_dirs = <<>>
    /\ attempts = <<>>
    /\ arrivals = {}

\* BatchParserUI.__init__ and _build_layout: the entries hold the default
\* folders and the button is enabled
UIIdle ==
    /\ run_button = "normal"
    /\ source_var = "folder"
    /\ output_var = "folder"
    /\ after_queue = <<>>
    /\ threads = <<>>
    /\ dialogs = 0
    /\ warned = ""

BatchIdle ==
    /\ tree = [d \in AllDirs |-> {}]
    /\ pc = "idle"
    /\ claim_dirs = <<>>
    /\ idx = 0
    /\ encounters = EmptyDict
    /\ successes = <<>>
    /\ failures = EmptyDict
    /\ month_map = [mi |-> <<>>, auto |-> <<>>]
    /\ error = ""
    /\ parse_result = None
    /\ parsed = EmptyDict
    /\ visited = <<>>

(***************************************************************************)
(* Spec: parse() on a tree.                                                *)
(***************************************************************************)
Init ==
    /\ tree \in [AllDirs -> SUBSET HeaderFileNames]
    /\ pc = "start"
    /\ claim_dirs = <<>>
    /\ idx = 0
    /\ encounters = EmptyDict
    /\ successes = <<>>
    /\ failures = EmptyDict
    /\ month_map = [mi |-> <<>>, auto |-> <<>>]
    /\ error = ""
    /\ parse_result = None
    /\ parsed = EmptyDict
    /\ visited = <<>>
    /\ DirIdle
    /\ FnIdle
    /\ ProcIdle
    /\ UIIdle

\* a test that lets an empty list through
NeverEmpty(dirs) == FALSE

\* the test "if not claim_dirs" of parse_with_status
NoClaimDirs(dirs) == dirs = <<>>

\* parse_with_status up to its loop: discovery, FileNotFoundError when it
\* finds nothing
Discover ==
    /\ pc = "start"
    /\ \E orderMI \in Orders(Holding(tree, MI_LAYOUT)),
          orderAUTO \in Orders(Holding(tree, AUTO_LAYOUT)) :
          claim_dirs' = _discover_claim_dirs(tree, orderMI, orderAUTO)
    /\ IF NoClaimDirs(claim_dirs')
       THEN pc' = "raised" /\ error' = "FileNotFoundError" /\ idx' = idx
       ELSE pc' = "loop" /\ error' = error /\ idx' = 1
    /\ UNCHANGED <<tree, encounters, successes, failures, month_map, parse_result,
                   parsed, visited, dvars, fvars, pvars, uvars>>

\* month_map.setdefault(bucket, []).append(month_key)
AddMonth(mm, layout, month_key) ==
    IF layout = MI_LAYOUT THEN [mm EXCEPT !.mi = Append(@, month_key)]
    ELSE [mm EXCEPT !.auto = Append(@, month_key)]

\* a loop that ends at the first failure
BreakAfterFailure(i) == i + MaxDirs

\* where the loop of parse_with_status goes after a directory failed:
\* "continue"
AfterFailure(i) == i + 1

\* a handler that merges what the directory held all the same
MergeAnyway(merged, claim_encounters) == MergeInto(merged, claim_encounters)

\* the merged map after "except Exception": _parse_claim_dir raised, so
\* claim_encounters was never bound and "continue" skips the merge
AfterException(merged, claim_encounters) == merged

\* one round of the loop of parse_with_status: the directory's files are
\* read as they are at that moment
ProcessDir ==
    /\ pc = "loop"
    /\ idx <= Len(claim_dirs)
    /\ LET claim_dir == claim_dirs[idx][1]
           layout == claim_dirs[idx][2]
       IN \E dir \in DirInputs(layout) :
             LET exc == ParseClaimDirError(dir)
                 claim_encounters == _parse_claim_dir(dir, layout)
             IN /\ visited' = Append(visited, claim_dir)
                /\ IF exc # ""
                   THEN /\ failures' = Put(failures, claim_dir, exc)
                        /\ idx' = AfterFailure(idx)
                        /\ encounters' = AfterException(encounters, claim_encounters)
                        /\ UNCHANGED <<successes, month_map, parsed>>
                   ELSE /\ successes' = Append(successes, claim_dir)
                        /\ month_map' = AddMonth(month_map, layout, MonthKey(dir.patient))
                        /\ encounters' = MergeInto(encounters, claim_encounters)
                        /\ parsed' = Put(parsed, claim_dir, claim_encounters)
                        /\ idx' = idx + 1
                        /\ UNCHANGED failures
    /\ UNCHANGED <<tree, pc, claim_dirs, error, parse_result, dvars, fvars, pvars, uvars>>

\* parse_with_status returns
Return ==
    /\ pc = "loop"
    /\ idx > Len(claim_dirs)
    /\ pc' = "returned"
    /\ UNCHANGED <<tree, claim_dirs, idx, encounters, successes, failures, month_map,
                   error, parse_result, parsed, visited, dvars, fvars, pvars, uvars>>

\* a test that lets a single failure through
SeveralFailures(f) == Cardinality(DOMAIN f) > 1

\* the test "if failures" of parse
ParseRaises(f) == DOMAIN f # {}

\* parse() after parse_with_status returned
Parse ==
    /\ pc = "returned"
    /\ pc' = "done"
    /\ IF ParseRaises(failures)
       THEN error' = "RuntimeError" /\ parse_result' = parse_result
       ELSE error' = error /\ parse_result' = Some(encounters)
    /\ UNCHANGED <<tree, claim_dirs, idx, encounters, successes, failures, month_map,
                   parsed, visited, dvars, fvars, pvars, uvars>>

Next == Discover \/ ProcessDir \/ Return \/ Parse

Spec == Init /\ [][Next]_vars

(***************************************************************************)
(* SpecDir: _parse_claim_dir on one directory.  Each of the four passes    *)
(* opens its file, reads it line by line and ends; at most MaxLines lines  *)
(* are read in all.                                                        *)
(***************************************************************************)
Passes == {"patient", "dx", "item", "detail"}

\* the pass _parse_claim_dir runs after pass p
NextPass(p) ==
    CASE p = "patient" -> "dx" [] p = "dx" -> "item" [] p = "item" -> "detail"
      [] p = "detail" -> "done"

Line9 == <<"0", "0", "0", "9">>

NoKey == <<" ">>

\* an item line with the line_no of Item1 and another code
Item1b(key) == ItemLine(key, Line1, <<"9", "9", "9">>, <<"2", "5", "0">>, <<"1">>)

\* header field texts with a claim_no of four digits, the rest of the field
\* blank
HdrShort == [HdrZ(St1) EXCEPT !.claim_no = <<"2", "0", "2", "4">>]

\* the first fifteen bytes of the header line of HdrShort
KShort == <<"2", "0", "2", "4", " ", " ", " ", " ", " ", " ">> \o St1

\* the lines a file of the directory can hold, as the file yields them
RawLines(p, layout) ==
    LET lines ==
          CASE p = "patient" ->
                 {HeaderLine(layout, HdrA(St1)), HeaderLine(layout, HdrB(St1)),
                  HeaderLine(layout, HdrShort)}
            [] p = "dx" ->
                 {Dx1(K1), Dx2(K1), DxBare(K1), Dx1(NoKey)}
            [] p = "item" ->
                 {Item1(K1), Item2(K1), Item1b(K1), Item1(KShort), ItemSup2(K1), ItemInf(K1)}
            [] p = "detail" ->
                 {DetailLine(K1, <<"2">>, Line1, <<"o", "n", "e">>),
                  DetailLine(K1, <<"1">>, Line1, <<"h", "d", "r">>),
                  DetailLine(K1, <<"2">>, Line9, <<"n", "i", "n", "e">>),
                  DetailLine(KShort, <<"2">>, Line1, <<" ", "o", "t", "h", " ">>)}
    IN {l \o <<"\r", "\n">> : l \in lines}

InitDir ==
    /\ BatchIdle
    /\ dlayout \in Range(SUPPORTED_LAYOUTS)
    /\ dpc = "patient"
    /\ maps = NoPatientMaps
    /\ denc = EmptyDict
    /\ nread = 0
    /\ hist = <<>>
    /\ fstate = Unopened
    /\ derr = ""
    /\ FnIdle
    /\ ProcIdle
    /\ UIIdle

\* the first step of the loop "for line in self._iter_lines(path)" of pass p:
\* the file is missing, or it is opened, or opening it raises
OpenFile(p) ==
    /\ dpc = p
    /\ fstate[p] = "unopened"
    /\ \E state \in {"missing", "ok", "unreadable"} :
          /\ fstate' = [fstate EXCEPT ![p] = state]
          /\ IF _iter_lines_raises([state |-> state, lines |-> <<>>])
             THEN dpc' = "failed" /\ derr' = "OSError"
             ELSE UNCHANGED <<dpc, derr>>
    /\ UNCHANGED <<bvars, fvars, pvars, uvars, dlayout, maps, denc, nread, hist>>

\* what reading a line leaves of the history and the line count
Read(p, line) ==
    /\ hist' = Append(hist, [pass |-> p, line |-> line])
    /\ nread' = nread + 1

\* one round of the loop of _parse_patient_file
ReadHeaderLine ==
    /\ dpc = "patient" /\ fstate.patient = "ok" /\ nread < MaxLines
    /\ \E raw \in RawLines("patient", dlayout) :
          LET line == RStripNewline(raw)
          IN /\ maps' = ParsePatientLine(maps, line, dlayout)
             /\ Read("patient", line)
    /\ UNCHANGED <<bvars, fvars, pvars, uvars, dlayout, dpc, denc, fstate, derr>>

\* one round of the loop of _attach_dx
ReadDxLine ==
    /\ dpc = "dx" /\ fstate.dx = "ok" /\ nread < MaxLines
    /\ \E raw \in RawLines("dx", dlayout) :
          LET line == RStripNewline(raw)
          IN /\ denc' = AttachDxLine(denc, line)
             /\ Read("dx", line)
    /\ UNCHANGED <<bvars, fvars, pvars, uvars, dlayout, dpc, maps, fstate, derr>>

\* one round of the loop of _attach_items: it appends an item, or raises
ReadItemLine ==
    /\ dpc = "item" /\ fstate.item = "ok" /\ nread < MaxLines
    /\ \E raw \in RawLines("item", dlayout) :
          LET line == RStripNewline(raw)
          IN /\ Read("item", line)
             /\ IF AttachItemLineError(line) # ""
                THEN /\ dpc' = "failed"
                     /\ derr' = AttachItemLineError(line)
                     /\ denc' = denc
                ELSE /\ denc' = AttachItemLine(denc, line)
                     /\ UNCHANGED <<dpc, derr>>
    /\ UNCHANGED <<bvars, fvars, pvars, uvars, dlayout, maps, fstate>>

\* one round of the loop of _attach_details
ReadDetailLine ==
    /\ dpc = "detail" /\ fstate.detail = "ok" /\ nread < MaxLines
    /\ \E raw \in RawLines("detail", dlayout) :
          LET line == RStripNewline(raw)
          IN /\ denc' = AttachDetailLine(denc, line)
             /\ Read("detail", line)
    /\ UNCHANGED <<bvars, fvars, pvars, uvars, dlayout, dpc, maps, fstate, derr>>

\* the loop of pass p ends: the file was missing or has no more lines.
\* After the header pass _parse_claim_dir builds the encounters.
EndPass(p) ==
    /\ dpc = p
    /\ fstate[p] \in {"missing", "ok"}
    /\ dpc' = NextPass(p)
    /\ denc' = IF p = "patient" THEN BuildEncounters(maps) ELSE denc
    /\ UNCHANGED <<bvars, fvars, pvars, uvars, dlayout, maps, nread, hist, fstate, derr>>

NextDir ==
    \/ \E p \in Passes : OpenFile(p)
    \/ ReadHeaderLine
    \/ ReadDxLine
    \/ ReadItemLine
    \/ ReadDetailLine
    \/ \E p \in Passes : EndPass(p)

SpecDir == InitDir /\ [][NextDir]_vars

(***************************************************************************)
(* SpecFn: one call of a field function on a text.  The texts are those of *)
(* at most MaxText characters of TextChars; the functions of two texts     *)
(* take a special code as their second.                                    *)
(***************************************************************************)
\* length of the text given to a field function (SpecFn)
MaxText == 2

TextChars ==
    {"0", "1", "2", "3", "4", "5", "6", "7", "8", "9", " ", ",", "-", ".", "x", "sup2"}

Texts == UNION {[1..n -> TextChars] : n \in 0..MaxText}

SpecialCodes == {<<>>, <<"C">>, <<"E">>, <<"F">>, <<"1">>, <<"c">>}

\* the values of the parameter scale of _parse_decimal; _attach_items gives 2
Scales == {0, 1, 2}

InitFn ==
    /\ BatchIdle
    /\ DirIdle
    /\ arg1 \in Texts
    /\ arg2 \in SpecialCodes
    /\ fpc = "input"
    /\ fout = NoCall
    /\ ProcIdle
    /\ UIIdle

\* what a call of function fn that returns value leaves
Returns(fn, value) ==
    /\ fpc' = "returned"
    /\ fout' = [fn |-> fn, value |-> value]

Call_parse_int ==
    /\ fpc = "input"
    /\ Returns("_parse_int", _parse_int(arg1))
    /\ UNCHANGED <<bvars, dvars, pvars, uvars, arg1, arg2>>

Call_parse_amount ==
    /\ fpc = "input"
    /\ Returns("_parse_amount", _parse_amount(arg1))
    /\ UNCHANGED <<bvars, dvars, pvars, uvars, arg1, arg2>>

Call_parse_gender ==
    /\ fpc = "input"
    /\ Returns("_parse_gender", _parse_gender(arg1))
    /\ UNCHANGED <<bvars, dvars, pvars, uvars, arg1, arg2>>

Call_derive_insurance_nhis_type ==
    /\ fpc = "input"
    /\ Returns("_derive_insurance_nhis_type", _derive_insurance_nhis_type(arg1, arg2))
    /\ UNCHANGED <<bvars, dvars, pvars, uvars, arg1, arg2>>

\* _parse_decimal returns, or the InvalidOperation of quantize leaves it
Call_parse_decimal ==
    /\ fpc = "input"
    /\ \E scale \in Scales :
          /\ fpc' = IF _parse_decimal_raises(arg1, scale) THEN "raised" ELSE "returned"
          /\ fout' = [fn |-> "_parse_decimal",
                      value |-> IF _parse_decimal_raises(arg1, scale) THEN None
                                ELSE _parse_decimal(arg1, scale),
                      scale |-> scale]
    /\ UNCHANGED <<bvars, dvars, pvars, uvars, arg1, arg2>>

NextFn ==
    \/ Call_parse_decimal
    \/ Call_parse_int
    \/ Call_parse_amount
    \/ Call_parse_gender
    \/ Call_derive_insurance_nhis_type

SpecFn == InitFn /\ [][NextFn]_vars

(***************************************************************************)
(* SpecProc: runs of process_batches (process_ddmd_batches.py).  Batches   *)
(* arrive under data_root between the runs; dec.exe is the environment: it *)
(* reports success or failure and leaves output files in sam_in.  The      *)
(* content of a decoded file is <<doc_id, run>>: the batch it was decoded  *)
(* from and the run that decoded it.                                       *)
(***************************************************************************)
\* number of batch directories under data_root (SpecProc)
MaxDocs == 2
\* number of runs of process_batches (SpecProc)
MaxRuns == 2

DocIds == 1..MaxDocs

SUPPORTED_OUTPUTS ==
    <<"H010", "K020.1", "K020.2", "K020.3", "K020.4",
      "C010", "C110.1", "C110.2", "C110.3", "C110.4">>

\* the sets of files one run of dec.exe can leave in sam_in
DecoderOutputs ==
    { {}, {"H010"}, {"H010", "K020.1", "K020.2", "K020.3", "K020.4"},
      {"C010", "C110.1", "C110.2", "C110.3", "C110.4"} }

\* the values of the parameter max_batches
Limits == {None} \cup {Some(n) : n \in 0..(MaxDocs - 1)}

\* discover_batches finds a payload for the batch: an .enc file under zip,
\* or with the fallback a file under enc
HasPayload(info, use_enc_fallback) == info.kind = "zip" \/ use_enc_fallback

Discovered(root, use_enc_fallback) ==
    {doc \in DOMAIN root : HasPayload(root[doc], use_enc_fallback)}

\* list.insert of a batch into a list sorted by sort_key, behind the batches
\* with the same key
RECURSIVE InsertByKey(_, _, _)
InsertByKey(doc, sorted, root) ==
    IF sorted = <<>> THEN <<doc>>
    ELSE IF root[doc].mtime < root[Head(sorted)].mtime THEN <<doc>> \o sorted
    ELSE <<Head(sorted)>> \o InsertByKey(doc, Tail(sorted), root)

\* sorted(batches, key=lambda info: info.sort_key): a stable sort
RECURSIVE SortByKey(_, _)
SortByKey(found, root) ==
    IF found = <<>> THEN <<>>
    ELSE InsertByKey(found[Len(found)], SortByKey(SubSeq(found, 1, Len(found) - 1), root), root)

\* discover_batches: order is the order in which iterdir yields the batches
discover_batches(root, order) == SortByKey(order, root)

\* a limit test that lets one batch more through
LimitExceeded(limit, count) == limit # None /\ limit[1] # 0 /\ count > limit[1]

\* "if max_batches and processed >= max_batches"
LimitReached(limit, count) == limit # None /\ limit[1] # 0 /\ count >= limit[1]

\* the test of process_batches for a batch that is decoded already
AlreadyDecoded(root, doc) ==
    /\ doc \in DOMAIN root
    /\ "K020.1" \in DOMAIN root[doc] \/ "C110.1" \in DOMAIN root[doc]

\* sam_in after dec.exe wrote the files of the set written for batch doc
AfterDecoding(files, written, doc, r) ==
    [f \in DOMAIN files \cup written |-> IF f \in written THEN <<doc, r>> ELSE files[f]]

\* copy_decoded_files: the files it copies, and the destination after it
CopiedFiles(files) == {f \in Range(SUPPORTED_OUTPUTS) : f \in DOMAIN files}

copy_decoded_files(files, root, doc) ==
    LET before == IF doc \in DOMAIN root THEN root[doc] ELSE EmptyDict
    IN Put(root, doc,
           [f \in DOMAIN before \cup CopiedFiles(files) |->
               IF f \in CopiedFiles(files) THEN files[f] ELSE before[f]])

InitProc ==
    /\ BatchIdle
    /\ DirIdle
    /\ FnIdle
    /\ ProcIdle
    /\ UIIdle

\* a batch directory with a payload appears under data_root between two runs
Arrive ==
    /\ ppc \in {"idle", "returned"}
    /\ \E doc \in DocIds \ DOMAIN data_root, kind \in {"zip", "enc"}, mtime \in 1..MaxDocs :
          /\ data_root' = Put(data_root, doc, [kind |-> kind, mtime |-> mtime])
          /\ arrivals' = arrivals \cup {[doc |-> doc, run |-> run]}
    /\ UNCHANGED <<bvars, dvars, fvars, uvars, sam_in, decoded_root, run, ppc, max_batches,
                   batches, bidx, processed, new_batch_dirs, attempts>>

\* process_batches up to its loop
StartRun ==
    /\ ppc \in {"idle", "returned"}
    /\ run < MaxRuns
    /\ \E limit \in Limits, use_enc_fallback \in BOOLEAN :
          \E order \in Orders(Discovered(data_root, use_enc_fallback)) :
             /\ max_batches' = limit
             /\ batches' = discover_batches(data_root, order)
    /\ run' = run + 1
    /\ ppc' = "loop"
    /\ bidx' = 1
    /\ processed' = 0
    /\ new_batch_dirs' = <<>>
    /\ UNCHANGED <<bvars, dvars, fvars, uvars, data_root, sam_in, decoded_root, attempts, arrivals>>

\* one round of the loop for a batch that is decoded already: "continue"
SkipBatch ==
    /\ ppc = "loop"
    /\ bidx <= Len(batches)
    /\ ~LimitReached(max_batches, processed)
    /\ AlreadyDecoded(decoded_root, batches[bidx])
    /\ bidx' = bidx + 1
    /\ UNCHANGED <<bvars, dvars, fvars, uvars, data_root, sam_in, decoded_root, run, ppc,
                   max_batches, batches, processed, new_batch_dirs, attempts, arrivals>>

\* one round of the loop for any other batch: the payload is copied to
\* sam_in, dec.exe runs, the payload is removed and, if dec.exe reported
\* success, the output files are copied to the batch's decoded directory
DecodeBatch ==
    /\ ppc = "loop"
    /\ bidx <= Len(batches)
    /\ ~LimitReached(max_batches, processed)
    /\ ~AlreadyDecoded(decoded_root, batches[bidx])
    /\ \E success \in BOOLEAN, written \in DecoderOutputs :
          /\ ~success => written = {}
          /\ sam_in' = AfterDecoding(sam_in, written, batches[bidx], run)
          /\ decoded_root' =
                IF success THEN copy_decoded_files(sam_in', decoded_root, batches[bidx])
                ELSE decoded_root
          /\ new_batch_dirs' =
                IF success /\ CopiedFiles(sam_in') # {}
                THEN Append(new_batch_dirs, batches[bidx]) ELSE new_batch_dirs
          /\ attempts' =
                Append(attempts,
                       [run |-> run, doc |-> batches[bidx],
                        existed |-> batches[bidx] \in DOMAIN decoded_root,
                        success |-> success,
                        copied |-> IF success THEN CopiedFiles(sam_in') ELSE {}])
    /\ processed' = processed + 1
    /\ bidx' = bidx + 1
    /\ UNCHANGED <<bvars, dvars, fvars, uvars, data_root, run, ppc, max_batches, batches, arrivals>>

\* the loop ends, at the end of the list or at the limit: process_batches
\* returns new_batch_dirs
ReturnDirs ==
    /\ ppc = "loop"
    /\ bidx > Len(batches) \/ LimitReached(max_batches, processed)
    /\ ppc' = "returned"
    /\ UNCHANGED <<bvars, dvars, fvars, uvars, data_root, sam_in, decoded_root, run, max_batches,
                   batches, bidx, processed, new_batch_dirs, attempts, arrivals>>

NextProc == Arrive \/ StartRun \/ SkipBatch \/ DecodeBatch \/ ReturnDirs

SpecProc == InitProc /\ [][NextProc]_vars

(***************************************************************************)
(* SpecUI: the window of BatchParserUI (batch_ui.py).  The main loop runs  *)
(* the handlers of the widgets and the callbacks given to root.after, one  *)
(* at a time and in the order they were given; each click that passes the  *)
(* tests of _run_batch starts a worker thread that runs _execute_batch.    *)
(***************************************************************************)
\* number of worker threads started (SpecUI)
MaxStarts == 2

\* the texts an entry can hold
Entries == {"", " ", "folder"}

\* str.strip() of the text of an entry
StripEntry(text) == IF text = " " THEN "" ELSE text

\* root.after(0, callback) for each of the callbacks, in order
Post(queue, callbacks) == queue \o callbacks

\* a handler that leaves the button as it is
ConfigKept(state) == state

\* self.run_button.config(state="disabled")
ConfigDisabled(state) == "disabled"

\* the worker threads that have not returned from _execute_batch
Alive == {w \in DOMAIN threads : threads[w].pc # "finished"}

InitUI ==
    /\ BatchIdle
    /\ DirIdle
    /\ FnIdle
    /\ ProcIdle
    /\ UIIdle

\* the user types in the source entry or picks a folder for it
EditSource ==
    /\ \E text \in Entries \ {source_var} : source_var' = text
    /\ UNCHANGED <<bvars, dvars, fvars, pvars, run_button, output_var, after_queue, threads,
                   dialogs, warned>>

\* the user types in the output entry or picks a folder for it
EditOutput ==
    /\ \E text \in Entries \ {output_var} : output_var' = text
    /\ UNCHANGED <<bvars, dvars, fvars, pvars, run_button, source_var, after_queue, threads,
                   dialogs, warned>>

\* _run_batch: the command of the run button, which a disabled button does
\* not invoke
ClickRun ==
    /\ run_button = "normal"
    /\ IF StripEntry(source_var) = ""
       THEN /\ warned' = "Missing source"
            /\ UNCHANGED <<run_button, after_queue, threads>>
       ELSE IF StripEntry(output_var) = ""
       THEN /\ warned' = "Missing output"
            /\ UNCHANGED <<run_button, after_queue, threads>>
       ELSE /\ Len(threads) < MaxStarts
            /\ run_button' = ConfigDisabled(run_button)
            /\ after_queue' = Post(after_queue, <<"log">>)
            /\ threads' = Append(threads, [pc |-> "try", raised |-> FALSE])
            /\ UNCHANGED warned
    /\ UNCHANGED <<bvars, dvars, fvars, pvars, source_var, output_var, dialogs>>

\* _execute_batch up to the log of the empty folders: the parser is made
\* and the directories are discovered, or an exception is raised
TryDiscover(w) ==
    /\ w \in DOMAIN threads
    /\ threads[w].pc = "try"
    /\ \/ /\ threads' = [threads EXCEPT ![w] = [pc |-> "except", raised |-> TRUE]]
          /\ UNCHANGED after_queue
       \/ /\ threads' = [threads EXCEPT ![w].pc = "parse"]
          /\ \E logs \in {<<>>, <<"log">>} : after_queue' = Post(after_queue, logs)
    /\ UNCHANGED <<bvars, dvars, fvars, pvars, run_button, source_var, output_var, dialogs,
                   warned>>

\* _execute_batch from parse_with_status to the end of the try block: the
\* summary is logged and the results are exported, or an exception is raised
TryParse(w) ==
    /\ w \in DOMAIN threads
    /\ threads[w].pc = "parse"
    /\ \/ /\ threads' = [threads EXCEPT ![w] = [pc |-> "except", raised |-> TRUE]]
          /\ \E logs \in {<<>>, <<"log">>} : after_queue' = Post(after_queue, logs)
       \/ /\ threads' = [threads EXCEPT ![w].pc = "finally"]
          /\ after_queue' = Post(after_queue, <<"log", "showinfo">>)
    /\ UNCHANGED <<bvars, dvars, fvars, pvars, run_button, source_var, output_var, dialogs,
                   warned>>

\* the except block of _execute_batch
ExceptBlock(w) ==
    /\ w \in DOMAIN threads
    /\ threads[w].pc = "except"
    /\ threads' = [threads EXCEPT ![w].pc = "finally"]
    /\ after_queue' = Post(after_queue, <<"log", "showerror">>)
    /\ UNCHANGED <<bvars, dvars, fvars, pvars, run_button, source_var, output_var, dialogs,
                   warned>>

\* the finally block of _execute_batch, with which the thread ends
FinallyBlock(w) ==
    /\ w \in DOMAIN threads
    /\ threads[w].pc = "finally"
    /\ threads' = [threads EXCEPT ![w].pc = "finished"]
    /\ after_queue' = Post(after_queue, <<"enable">>)
    /\ UNCHANGED <<bvars, dvars, fvars, pvars, run_button, source_var, output_var, dialogs,
                   warned>>

\* the steps of worker thread w
Worker(w) == TryDiscover(w) \/ TryParse(w) \/ ExceptBlock(w) \/ FinallyBlock(w)

\* the main loop runs the oldest callback given to root.after: a line is
\* appended to the log, a message box opens, or the button is enabled
RunCallback ==
    /\ after_queue # <<>>
    /\ after_queue' = Tail(after_queue)
    /\ run_button' = IF Head(after_queue) = "enable" THEN "normal" ELSE run_button
    /\ dialogs' = IF Head(after_queue) \in {"showinfo", "showerror"} THEN dialogs + 1
                  ELSE dialogs
    /\ UNCHANGED <<bvars, dvars, fvars, pvars, source_var, output_var, threads, warned>>

\* the user closes a message box
Dismiss ==
    /\ dialogs > 0
    /\ dialogs' = dialogs - 1
    /\ UNCHANGED <<bvars, dvars, fvars, pvars, run_button, source_var, output_var,
                   after_queue, threads, warned>>

NextUI ==
    \/ EditSource
    \/ EditOutput
    \/ ClickRun
    \/ \E w \in 1..MaxStarts : Worker(w)
    \/ RunCallback
    \/ Dismiss

\* the main loop keeps running the callbacks and every thread keeps running
SpecUI ==
    /\ InitUI
    /\ [][NextUI]_vars
    /\ WF_vars(RunCallback)
    /\ \A w \in 1..MaxStarts : WF_vars(Worker(w))

(***************************************************************************)
(* Properties of the batch run (Spec).                                     *)
(***************************************************************************)
ScalarFields ==
    {"patient", "encounter_date", "department_code", "license_type_code", "license_no",
     "treatment_days", "inpatient_days", "result_code", "copay_type_code", "insurance",
     "invoice"}

\* the positions in successes of the directories whose record of encounter k
\* holds a value in field f: a text that is not empty, an optional record,
\* date or number that is not None
Suppliers(k, f) ==
    {i \in 1..Len(successes) :
        /\ k \in DOMAIN parsed[successes[i]]
        /\ parsed[successes[i]][k][f] # <<>>}

FirstSupplier(k, f) == CHOOSE i \in Suppliers(k, f) : \A j \in Suppliers(k, f) : i <= j

\* C1: each single-valued field of a merged record holds the value of the
\* first successfully parsed directory, in visiting order, whose record of
\* that encounter holds a value in the field (and is empty when none does).
C1_FirstSupplierWins ==
    \A k \in DOMAIN encounters : \A f \in ScalarFields :
        IF Suppliers(k, f) = {} THEN encounters[k][f] = <<>>
        ELSE encounters[k][f] = parsed[successes[FirstSupplier(k, f)]][k][f]

\* the rows field f of encounter k holds in the directories from position i
\* of successes on, concatenated
RECURSIVE RowsFrom(_, _, _)
RowsFrom(i, k, f) ==
    IF i > Len(successes) THEN <<>>
    ELSE (IF k \in DOMAIN parsed[successes[i]] THEN parsed[successes[i]][k][f] ELSE <<>>)
         \o RowsFrom(i + 1, k, f)

\* two successfully parsed directories that returned the same encounter map
TwoIdentical ==
    /\ Len(successes) = 2
    /\ parsed[successes[1]] = parsed[successes[2]]

\* C2: the merged dx_list and items of an encounter are the concatenation,
\* in visiting order, of those of every successfully parsed directory that
\* holds the encounter, nothing removed; after two identical directories
\* every encounter has twice the rows of the first directory and the
\* patient, encounter date and insurance of the first directory.
C2_ListsConcatenated ==
    /\ DOMAIN encounters = UNION {DOMAIN parsed[d] : d \in DOMAIN parsed}
    /\ \A k \in DOMAIN encounters :
          /\ encounters[k].dx_list = RowsFrom(1, k, "dx_list")
          /\ encounters[k].items = RowsFrom(1, k, "items")
    /\ TwoIdentical =>
          \A k \in DOMAIN encounters :
             LET first == parsed[successes[1]][k]
             IN /\ Len(encounters[k].dx_list) = 2 * Len(first.dx_list)
                /\ Len(encounters[k].items) = 2 * Len(first.items)
                /\ encounters[k].patient = first.patient
                /\ encounters[k].encounter_date = first.encounter_date
                /\ encounters[k].insurance = first.insurance

\* two identical directories with a diagnosis row and an item row merged
C2_Witness ==
    /\ pc = "returned"
    /\ TwoIdentical
    /\ \E k \in DOMAIN encounters :
          /\ Len(parsed[successes[1]][k].dx_list) = 1
          /\ Len(parsed[successes[1]][k].items) = 1
          /\ Len(encounters[k].dx_list) = 2
          /\ Len(encounters[k].items) = 2
          /\ encounters[k].patient # None

Ascending(paths) == \A i, j \in 1..Len(paths) : i < j => StrLess(paths[i], paths[j])

PathsOf(dirs) == [i \in 1..Len(dirs) |-> dirs[i][1]]

\* C3: whatever order the directory walk yields the directories in, the
\* loop takes the directories that hold a header file one after another in
\* ascending order of their path texts, each with the same layout.
C3_SortedOrder ==
    pc # "start" =>
       /\ \A orderMI \in Orders(Holding(tree, MI_LAYOUT)) :
            \A orderAUTO \in Orders(Holding(tree, AUTO_LAYOUT)) :
               claim_dirs = _discover_claim_dirs(tree, orderMI, orderAUTO)
       /\ Range(PathsOf(claim_dirs)) = {d \in AllDirs : tree[d] # {}}
       /\ Ascending(PathsOf(claim_dirs))
       /\ pc # "raised" => visited = SubSeq(PathsOf(claim_dirs), 1, idx - 1)

\* both directories were taken, the one discovered second first
C3_Witness ==
    /\ pc = "returned"
    /\ Len(visited) = 2
    /\ claim_dirs[1][2] = AUTO_LAYOUT
    /\ claim_dirs[2][2] = MI_LAYOUT
    /\ encounters # EmptyDict

NoDuplicates(seq) == \A i, j \in 1..Len(seq) : seq[i] = seq[j] => i = j

\* C4: a directory whose parse raised is recorded in failures with the
\* exception and nowhere else, no exception leaves the loop, and when
\* parse_with_status returns the loop has taken every discovered directory:
\* each is in exactly one of successes and failures.
C4_FailureIsolation ==
    /\ NoDuplicates(successes)
    /\ Range(successes) \cap DOMAIN failures = {}
    /\ Range(successes) \cup DOMAIN failures = Range(visited)
    /\ DOMAIN parsed = Range(successes)
    /\ \A d \in DOMAIN failures : failures[d] \in {"OSError", "ValueError", "InvalidOperation"}
    /\ pc \in {"loop", "returned"} => error = ""
    /\ pc \in {"returned", "done"} => Range(visited) = Range(PathsOf(claim_dirs))

\* the first directory failed and the second was parsed and merged
C4_Witness ==
    /\ pc = "returned"
    /\ Len(claim_dirs) = 2
    /\ claim_dirs[1][1] \in DOMAIN failures
    /\ successes = <<claim_dirs[2][1]>>
    /\ encounters # EmptyDict

\* C5: parse() ends with RuntimeError exactly when parse_with_status
\* returned a failure, and returns nothing then; with no failure it returns
\* the merged encounter map of parse_with_status.
C5_StrictMode ==
    pc = "done" =>
       /\ error = "RuntimeError" <=> DOMAIN failures # {}
       /\ DOMAIN failures # {} => parse_result = None
       /\ DOMAIN failures = {} => error = "" /\ parse_result = Some(encounters)

\* one directory failed, one succeeded, and parse() raised
C5_Witness ==
    /\ pc = "done"
    /\ error = "RuntimeError"
    /\ Cardinality(DOMAIN failures) = 1
    /\ Len(successes) = 1

\* C6: when discovery finds no claim directory the run ends with
\* FileNotFoundError before the loop: nothing is parsed and neither
\* parse_with_status nor parse returns.
C6_NoClaimDirsFatal ==
    /\ pc # "start" /\ claim_dirs = <<>> =>
          /\ pc = "raised"
          /\ error = "FileNotFoundError"
          /\ parse_result = None
          /\ visited = <<>> /\ successes = <<>> /\ failures = EmptyDict
          /\ encounters = EmptyDict
    /\ pc = "raised" => claim_dirs = <<>>

\* a tree without a header file, after discovery
C6_Witness ==
    /\ pc = "raised"
    /\ \A d \in AllDirs : tree[d] = {}

(***************************************************************************)
(* Properties of one directory (SpecDir).                                  *)
(***************************************************************************)
\* the lines read so far in pass p, in the order they were read
PassLines(p) ==
    LET read == SelectSeq(hist, LAMBDA h : h.pass = p)
    IN [i \in 1..Len(read) |-> read[i].line]

EncounterKey(line) == SliceText(line, 1, 15)

\* the lines of pass p read so far that carry the encounter key k
LinesOfKey(p, k) == SelectSeq(PassLines(p), LAMBDA l : EncounterKey(l) = k)

ScopeMarker(line) == SliceText(line, 16, 1)

DetailLineNo(line) == SliceText(line, 17, 4)

\* the text of a detail line as add_detail_text keeps it
CleanedText(line) == Strip(SliceRaw(line, 26, 700))

AllItems == {<<k, i>> : k \in DOMAIN denc, i \in 1..MaxLines}

ItemsOf == {ki \in AllItems : ki[2] <= Len(denc[ki[1]].items)}

\* C7: every text in the detail_texts of an item is the text of a detail
\* line read with scope marker "2", and the items hold no more texts than
\* such lines were read: a line with another scope marker is never attached.
C7_ScopeFilter ==
    LET scoped == SelectSeq(PassLines("detail"), LAMBDA l : ScopeMarker(l) = <<"2">>)
    IN \A ki \in ItemsOf :
          LET texts == denc[ki[1]].items[ki[2]].detail_texts
          IN /\ Len(texts) <= Len(scoped)
             /\ \A t \in Range(texts) : \E j \in 1..Len(scoped) : CleanedText(scoped[j]) = t

\* a detail line with scope marker "1" was read whose key and line_no are
\* those of an item, and the item holds no text
C7_Witness ==
    /\ dpc = "done"
    /\ \E j \in 1..Len(hist) : \E ki \in ItemsOf :
          /\ hist[j].pass = "detail"
          /\ ScopeMarker(hist[j].line) = <<"1">>
          /\ EncounterKey(hist[j].line) = ki[1]
          /\ DetailLineNo(hist[j].line) = denc[ki[1]].items[ki[2]].line_no
          /\ denc[ki[1]].items[ki[2]].detail_texts = <<>>

\* the texts the detail lines read so far carry for line_no of encounter k:
\* those of the lines with scope marker "2", that key and that line_no
TextsFor(k, line_no) ==
    LET lines == SelectSeq(LinesOfKey("detail", k),
                           LAMBDA l : ScopeMarker(l) = <<"2">> /\ DetailLineNo(l) = line_no
                                      /\ CleanedText(l) # <<>>)
    IN [j \in 1..Len(lines) |-> CleanedText(lines[j])]

\* C8: unless the item pass raised (the detail pass does not run then), the
\* items of an encounter are those its item lines appended, one per line:
\* the detail pass creates none.  The first item of an encounter with a
\* line_no holds the texts of the qualifying detail lines of that encounter
\* and that line_no, in order; every other item holds none, so a line
\* without such an item is attached nowhere.
C8_DetailMatching ==
    dpc # "failed" =>
    \A k \in DOMAIN denc :
       LET items == denc[k].items
           lines == LinesOfKey("item", k)
       IN /\ Len(items) = Len(lines)
          /\ \A i \in 1..Len(items) :
                /\ items[i].encounter_no = k
                /\ items[i].line_no = SliceText(lines[i], 20, 4)
                /\ items[i].item_code = SliceText(lines[i], 25, 9)
                /\ items[i].detail_texts =
                      IF \E j \in 1..(i - 1) : items[j].line_no = items[i].line_no
                      THEN <<>>
                      ELSE TextsFor(k, items[i].line_no)

\* a qualifying detail line found no item of its line_no in an encounter
\* that has items, and another was attached
C8_Witness ==
    /\ dpc = "done"
    /\ \E k \in DOMAIN denc :
          /\ \E i \in 1..Len(denc[k].items) : denc[k].items[i].detail_texts # <<>>
          /\ \E j \in 1..Len(hist) :
                /\ hist[j].pass = "detail"
                /\ ScopeMarker(hist[j].line) = <<"2">>
                /\ EncounterKey(hist[j].line) = k
                /\ \A i \in 1..Len(denc[k].items) :
                      denc[k].items[i].line_no # DetailLineNo(hist[j].line)

\* the last line read is an item line that raises
ItemLineRaised ==
    /\ hist # <<>>
    /\ hist[Len(hist)].pass = "item"
    /\ AttachItemLineError(hist[Len(hist)].line) = derr

\* C9: a missing file yields no line and never fails the directory, the
\* directory fails only on a file that cannot be opened or an item line
\* that raises; a pass whose file is missing leaves nothing in the result
\* (no diagnosis row and no backfilled field, no item, no detail text), and
\* without the item file the encounters keep their patient and diagnosis
\* rows with an empty item list.
C9_MissingFileSkipped ==
    /\ \A p \in Passes : fstate[p] = "missing" => PassLines(p) = <<>>
    /\ dpc = "failed" =>
          /\ derr # ""
          /\ (\E p \in Passes : fstate[p] = "unreadable") \/ ItemLineRaised
    /\ dpc # "failed" => derr = ""
    /\ fstate.dx = "missing" =>
          \A k \in DOMAIN denc :
             /\ denc[k].dx_list = <<>>
             /\ denc[k].encounter_date = None
             /\ denc[k].department_code = <<>>
    /\ fstate.item = "missing" =>
          \A k \in DOMAIN denc :
             /\ denc[k].items = <<>>
             /\ Len(denc[k].dx_list) = Len(LinesOfKey("dx", k))
             /\ k \in DOMAIN maps.patients => denc[k].patient = Some(maps.patients[k])
    /\ fstate.detail = "missing" => \A ki \in ItemsOf : denc[ki[1]].items[ki[2]].detail_texts = <<>>

\* a directory with a header and a diagnosis file and no item file was
\* parsed to the end
C9_Witness ==
    /\ dpc = "done"
    /\ derr = ""
    /\ fstate.patient = "ok" /\ fstate.dx = "ok" /\ fstate.item = "missing"
    /\ \E k \in DOMAIN denc :
          /\ denc[k].patient # None
          /\ denc[k].dx_list # <<>>
          /\ denc[k].items = <<>>

\* the first value of a sequence that is not empty (not None), else empty
FirstValue(values) ==
    LET given == SelectSeq(values, LAMBDA v : v # <<>>)
    IN IF given = <<>> THEN <<>> ELSE given[1]

DxFieldValues(lines, start, length) ==
    [i \in 1..Len(lines) |-> SliceText(lines[i], start, length)]

\* C10: every diagnosis line with a key has its encounter in the map once
\* the pass read it, a line without a key creates none; the dx_list of an
\* encounter holds one row per diagnosis line of its key, in the order
\* read; encounter_date, department_code, license_type_code and license_no
\* are those of the first diagnosis line of the key that carries a value.
C10_DiagnosisPass ==
    /\ LET read == PassLines("dx")
       IN \A j \in 1..Len(read) :
             EncounterKey(read[j]) # <<>> => EncounterKey(read[j]) \in DOMAIN denc
    /\ <<>> \notin DOMAIN denc
    /\ \A k \in DOMAIN denc :
          LET lines == LinesOfKey("dx", k)
          IN /\ denc[k].dx_list =
                   [i \in 1..Len(lines) |->
                       [encounter_no |-> k,
                        dx_type_code |-> SliceText(lines[i], 16, 1),
                        kcd_code |-> SliceText(lines[i], 17, 6)]]
             /\ denc[k].encounter_date =
                   FirstValue([i \in 1..Len(lines) |-> _parse_date(SliceText(lines[i], 25, 8))])
             /\ denc[k].department_code = FirstValue(DxFieldValues(lines, 23, 2))
             /\ denc[k].license_type_code = FirstValue(DxFieldValues(lines, 33, 1))
             /\ denc[k].license_no = FirstValue(DxFieldValues(lines, 34, 10))

\* three diagnosis lines of an encounter the header file does not hold: the
\* first carries no date, the second and the third carry different dates
C10_Witness ==
    \E k \in DOMAIN denc :
       LET lines == LinesOfKey("dx", k)
       IN /\ k \notin DOMAIN maps.patients
          /\ Len(lines) = 3
          /\ Len(denc[k].dx_list) = 3
          /\ _parse_date(SliceText(lines[1], 25, 8)) = None
          /\ _parse_date(SliceText(lines[2], 25, 8)) # None
          /\ _parse_date(SliceText(lines[3], 25, 8)) \notin
                {None, _parse_date(SliceText(lines[2], 25, 8))}
          /\ denc[k].encounter_date = _parse_date(SliceText(lines[2], 25, 8))

(***************************************************************************)
(* Field errors, discovery and the header pass.                            *)
(***************************************************************************)
\* C11: no field text fails the directory, and every item line with a key
\* read so far is an item of its encounter: the directory never ends with
\* the ValueError of int() or the InvalidOperation of quantize().
C11_SoftErrorsNeverSurface ==
    /\ derr \notin {"ValueError", "InvalidOperation"}
    /\ \A j \in 1..Len(hist) :
          hist[j].pass = "item" /\ EncounterKey(hist[j].line) # <<>> =>
             /\ EncounterKey(hist[j].line) \in DOMAIN denc
             /\ Len(denc[EncounterKey(hist[j].line)].items) =
                   Len(LinesOfKey("item", EncounterKey(hist[j].line)))

\* C12: the discovered list holds every directory that holds a header file
\* exactly once, in ascending order of the path texts, the base directory
\* included; a directory is paired with MI when it holds K020.1 (also when
\* it holds C110.1 too) and with AUTO when it holds C110.1 only.
C12_DiscoveryPairing ==
    pc # "start" =>
       /\ Range(PathsOf(claim_dirs)) = {d \in AllDirs : tree[d] # {}}
       /\ NoDuplicates(PathsOf(claim_dirs))
       /\ Ascending(PathsOf(claim_dirs))
       /\ \A i \in 1..Len(claim_dirs) :
             claim_dirs[i][2] =
                IF MI_LAYOUT.patient_file \in tree[claim_dirs[i][1]]
                THEN SUPPORTED_LAYOUTS[1] ELSE SUPPORTED_LAYOUTS[2]

\* the claim_no and the statement_no field of a header line, decoded
ClaimNoField(line) == Decode(SubSeq(line, 1, 10))

StatementNoField(line) == Decode(SubSeq(line, 11, 15))

\* C13: the key the header pass computes for a header line is its claim_no
\* field followed by its statement_no field as they stand, 15 characters:
\* the patient of every header line read is held under that key.
C13_KeyIsFifteenBytes ==
    \A j \in 1..Len(hist) :
       hist[j].pass = "patient" =>
          LET k == ClaimNoField(hist[j].line) \o StatementNoField(hist[j].line)
          IN /\ Len(k) = 15
             /\ k \in DOMAIN maps.patients
             /\ maps.patients[k].encounter_no = k

(***************************************************************************)
(* Properties of the field functions (SpecFn).                             *)
(***************************************************************************)
\* the digits of a text, in order
DigitsOf(t) == SelectSeq(t, LAMBDA c : c \in Digits)

\* C14: _parse_amount returns an integer for every text: 0 for a text
\* without a digit and for a text with a character that is no digit, blank
\* or separator, and the number its digits spell when it consists of digits
\* and separators.  _parse_int returns None for a blank text and for a text
\* with a separator or such a character, and the number, zero included,
\* for a text of digits.  Both return for every text (the ValueError of
\* int() is caught).
C14_NoneVersusZero ==
    /\ fout.fn = "_parse_amount" =>
          /\ fout.value \in Int
          /\ (\A i \in 1..Len(arg1) : arg1[i] \in {" ", ","}) => fout.value = 0
          /\ (\E i \in 1..Len(arg1) : arg1[i] \in {"x", "sup2"}) => fout.value = 0
          /\ (DigitsOf(arg1) # <<>> /\ \A i \in 1..Len(arg1) : arg1[i] \in Digits \cup {","})
                => fout.value = DigitsVal(DigitsOf(arg1))
    /\ fout.fn = "_parse_int" =>
          /\ (\A i \in 1..Len(arg1) : arg1[i] = " ") => fout.value = None
          /\ (\E i \in 1..Len(arg1) : arg1[i] \in {"x", "sup2", ","}) => fout.value = None
          /\ (arg1 # <<>> /\ \A i \in 1..Len(arg1) : arg1[i] \in Digits)
                => fout.value = Some(DigitsVal(arg1))
    /\ fpc = "input" => ENABLED Call_parse_int /\ ENABLED Call_parse_amount

\* _parse_amount returned a number other than zero for a text with a
\* thousands separator
C14_Witness ==
    /\ fpc = "returned"
    /\ fout.fn = "_parse_amount"
    /\ \E i \in 1..Len(arg1) : arg1[i] = ","
    /\ fout.value > 0

OddDigits == {"1", "3", "5", "7", "9"}

EvenDigits == {"0", "2", "4", "6", "8"}

\* C15: _parse_gender returns male for a suffix whose first character is an
\* odd digit, female for one whose first character is an even digit, and
\* unknown (None) for an empty suffix and for any other first character,
\* whatever follows the first character.
C15_GenderByFirstDigit ==
    fout.fn = "_parse_gender" =>
       /\ arg1 = <<>> => fout.value = None
       /\ arg1 # <<>> =>
             /\ arg1[1] \in OddDigits => fout.value = Some("M")
             /\ arg1[1] \in EvenDigits => fout.value = Some("F")
             /\ arg1[1] \notin OddDigits \cup EvenDigits => fout.value = None

\* _parse_gender returned female for a suffix that starts with an even digit
\* and ends with an odd one
C15_Witness ==
    /\ fpc = "returned"
    /\ fout.fn = "_parse_gender"
    /\ Len(arg1) = 2
    /\ arg1[1] \in EvenDigits
    /\ arg1[2] \in OddDigits
    /\ fout.value = Some("F")

\* the table of the claim: medical-aid code -> NHIS type
NhisTable ==
    (<<>> :> <<"1">>) @@ (<<"1">> :> <<"7">>) @@ (<<"2">> :> <<"8">>)
       @@ (<<"4">> :> <<"4">>) @@ (<<"6">> :> <<"9">>) @@ (<<"8">> :> <<"9">>)

\* C17: _derive_insurance_nhis_type returns 11 for the special code C and 12
\* for E and F, whatever the medical-aid code; for any other special code
\* it returns the table's entry for the medical-aid code and, for a code the
\* table does not hold, the code as it is.
C17_NhisType ==
    fout.fn = "_derive_insurance_nhis_type" =>
       /\ arg2 = <<"C">> => fout.value = <<"1", "1">>
       /\ arg2 \in {<<"E">>, <<"F">>} => fout.value = <<"1", "2">>
       /\ arg2 \notin {<<"C">>, <<"E">>, <<"F">>} =>
             fout.value = IF arg1 \in DOMAIN NhisTable THEN NhisTable[arg1] ELSE arg1

\* the special code C was given with a medical-aid code of the table, and
\* the type is 11
C17_Witness ==
    /\ fpc = "returned"
    /\ fout.fn = "_derive_insurance_nhis_type"
    /\ arg2 = <<"C">>
    /\ arg1 = <<"2">>
    /\ fout.value = <<"1", "1">>

(***************************************************************************)
(* Properties of the header and the item pass (SpecDir).                   *)
(***************************************************************************)
\* the last header line read so far that has the key k
LastHeaderLine(k) ==
    LET lines == SelectSeq(PassLines("patient"),
                           LAMBDA l : Strip(ClaimNoField(l)) \o Strip(StatementNoField(l)) = k)
    IN lines[Len(lines)]

\* the identity field of a header line without its hyphens, from the
\* seventh character on
IdentitySuffix(line) ==
    LET field == SubSeq(line, dlayout.patient_identity_start,
                        dlayout.patient_identity_start + dlayout.patient_identity_length - 1)
        identity == SelectSeq(Strip(Decode(field)), LAMBDA c : c # "-")
    IN SubSeq(identity, 7, Len(identity))

\* C16 as stated: the gender of every patient of the header pass is that of
\* the last character of the identity suffix.
C16_GenderByLastDigit ==
    \A k \in DOMAIN maps.patients :
       LET suffix == maps.patients[k].patient_identity_suffix
           last == IF suffix = <<>> THEN "" ELSE suffix[Len(suffix)]
       IN maps.patients[k].patient_gender =
             IF last \in OddDigits THEN Some("M")
             ELSE IF last \in EvenDigits THEN Some("F") ELSE None

\* C16 amended: the gender of every patient of the header pass is that of
\* the first character of the identity suffix of its header line: male for
\* an odd digit, female for an even digit, unknown otherwise and for an
\* empty suffix; the encounter built for the patient carries it.
C16_GenderOfPatient ==
    \A k \in DOMAIN maps.patients :
       LET suffix == IdentitySuffix(LastHeaderLine(k))
           first == IF suffix = <<>> THEN "" ELSE suffix[1]
           gender == IF first \in OddDigits THEN Some("M")
                     ELSE IF first \in EvenDigits THEN Some("F") ELSE None
       IN /\ maps.patients[k].patient_identity_suffix = suffix
          /\ maps.patients[k].patient_gender = gender
          /\ k \in DOMAIN denc /\ denc[k].patient # None =>
                denc[k].patient[1].patient_gender = gender

\* the encounters were built from a header line whose identity suffix
\* starts with an even digit and ends with an odd one: the patient is female
C16_Witness ==
    /\ dpc = "dx"
    /\ \E k \in DOMAIN denc :
          /\ denc[k].patient # None
          /\ Len(denc[k].patient[1].patient_identity_suffix) > 1
          /\ Head(denc[k].patient[1].patient_identity_suffix) \in EvenDigits
          /\ denc[k].patient[1].patient_identity_suffix[
                Len(denc[k].patient[1].patient_identity_suffix)] \in OddDigits
          /\ denc[k].patient[1].patient_gender = Some("F")

\* C18: no encounter of the directory's map holds two items with the same
\* line_no.
C18_LineNoUnique ==
    \A k \in DOMAIN denc :
       \A i, j \in 1..Len(denc[k].items) :
          i # j => denc[k].items[i].line_no # denc[k].items[j].line_no

\* C19: the header pass holds as many patients as header lines were read;
\* once the encounters are built, as many encounters have a patient as the
\* header file has lines, and the patient, the insurance and the invoice of
\* each are those of one header line.
C19_OneEncounterPerHeaderLine ==
    /\ Cardinality(DOMAIN maps.patients) = Len(PassLines("patient"))
    /\ dpc # "patient" =>
          /\ Cardinality({k \in DOMAIN denc : denc[k].patient # None}) =
                Len(PassLines("patient"))
          /\ \A k \in DOMAIN denc :
                denc[k].patient # None =>
                   \E line \in Range(PassLines("patient")) :
                      /\ denc[k].patient = Some(PatientOfLine(line, dlayout))
                      /\ denc[k].insurance = Some(InsuranceOfLine(line, dlayout))
                      /\ denc[k].invoice = Some(InvoiceOfLine(line, dlayout))

(***************************************************************************)
(* Properties of the runs of process_batches (SpecProc).                   *)
(***************************************************************************)
\* C20: re-running is safe: no batch whose directory exists under
\* decoded_root is decoded again, and a run after the first decodes nothing
\* unless a batch arrived since the run before it.
C20_RerunIsSafe ==
    \A i \in 1..Len(attempts) :
       /\ ~attempts[i].existed
       /\ attempts[i].run > 1 =>
             \E arrival \in arrivals : arrival.run = attempts[i].run - 1

(***************************************************************************)
(* Properties of _parse_decimal (SpecFn).                                  *)
(***************************************************************************)
\* the digits before and behind the decimal point of a text
IntegerPart(t) ==
    IF FirstIndex(t, {"."}) = 0 THEN t ELSE SubSeq(t, 1, FirstIndex(t, {"."}) - 1)

FractionPart(t) ==
    IF FirstIndex(t, {"."}) = 0 THEN <<>> ELSE SubSeq(t, FirstIndex(t, {"."}) + 1, Len(t))

\* a text of digits with at most one decimal point
IsPlainNumber(t) ==
    /\ \A i \in 1..Len(IntegerPart(t)) : IntegerPart(t)[i] \in Digits
    /\ \A i \in 1..Len(FractionPart(t)) : FractionPart(t)[i] \in Digits
    /\ Len(IntegerPart(t)) + Len(FractionPart(t)) > 0

\* C21: _parse_decimal returns None for an empty or blank text; for a text
\* of digits it returns the number the digits spell divided by 10^scale,
\* with scale decimal places; for digits with a decimal point it returns
\* the value divided by 10^scale with scale decimal places, rounded
\* half-up.
C21_ScaledDecimal ==
    fout.fn = "_parse_decimal" =>
       /\ Strip(arg1) = <<>> => fpc = "returned" /\ fout.value = None
       /\ (Strip(arg1) # <<>> /\ \A i \in 1..Len(Strip(arg1)) : Strip(arg1)[i] \in Digits) =>
             /\ fpc = "returned"
             /\ fout.value = Some([nan |-> FALSE, sign |-> 0,
                                   coef |-> DigitsVal(Strip(arg1)), exp |-> 0 - fout.scale])
       /\ IsPlainNumber(Strip(arg1)) =>
             /\ fpc = "returned"
             /\ fout.value # None
             /\ ~fout.value[1].nan
             /\ fout.value[1].exp = 0 - fout.scale
             /\ LET coef == fout.value[1].coef
                    unit == Pow10(Len(FractionPart(Strip(arg1))))
                    digits == DigitsVal(IntegerPart(Strip(arg1)) \o FractionPart(Strip(arg1)))
                IN /\ 2 * coef * unit <= 2 * digits + unit
                   /\ 2 * digits + unit < 2 * (coef + 1) * unit

\* _parse_decimal returned, with two decimal places, a value it rounded up
\* from a half
C21_Witness ==
    /\ fpc = "returned"
    /\ fout.fn = "_parse_decimal"
    /\ fout.scale = 2
    /\ IsPlainNumber(Strip(arg1))
    /\ FractionPart(Strip(arg1)) = <<"5">>
    /\ fout.value # None
    /\ fout.value[1].exp = 0 - 2
    /\ fout.value[1].coef = DigitsVal(IntegerPart(Strip(arg1))) + 1

(***************************************************************************)
(* Properties of the keys of the passes and of the detail pass (SpecDir).  *)
(***************************************************************************)
\* C22: a diagnosis, item or detail line read whose first 15 bytes are those
\* of a header line read belongs to the encounter made from that header
\* line: the key of the line is a key of the header pass, and the encounter
\* held under it is one with a patient, not a second encounter made for the
\* line.
C22_KeysAgree ==
    \A h \in Range(PassLines("patient")) :
       \A p \in {"dx", "item", "detail"} :
          \A l \in Range(PassLines(p)) :
             SubSeq(l, 1, 15) = SubSeq(h, 1, 15) =>
                /\ EncounterKey(l) \in DOMAIN maps.patients
                /\ EncounterKey(l) \in DOMAIN denc
                /\ denc[EncounterKey(l)].patient # None

\* C23: a detail line that is discarded, for its scope marker or for want of
\* an item with its line_no in its encounter, leaves the encounter map as
\* it was: reading it adds no encounter and changes none.
C23_DroppedDetailLine ==
    [][(dpc = "detail" /\ Len(hist') = Len(hist) + 1) =>
          LET line == hist'[Len(hist')].line
          IN (\/ ScopeMarker(line) # <<"2">>
              \/ EncounterKey(line) \notin DOMAIN denc
              \/ \A i \in 1..Len(denc[EncounterKey(line)].items) :
                    denc[EncounterKey(line)].items[i].line_no # DetailLineNo(line))
             => denc' = denc]_vars

(***************************************************************************)
(* The merged map and the failed directories (Spec).                       *)
(***************************************************************************)
\* the maps of the first n successful directories merged in that order
RECURSIVE MergedSuccesses(_)
MergedSuccesses(n) ==
    IF n = 0 THEN EmptyDict
    ELSE MergeInto(MergedSuccesses(n - 1), parsed[successes[n]])

\* C24: the merged map is the one obtained by merging the maps of the
\* successful directories alone, in the order they were taken: a directory
\* whose parse raised contributes no encounter and no field.
C24_FailedDirContributesNothing ==
    /\ DOMAIN failures \cap DOMAIN parsed = {}
    /\ encounters = MergedSuccesses(Len(successes))

\* the first directory was parsed and merged, the second failed, and the
\* merged map is that of the first
C24_Witness ==
    /\ pc = "returned"
    /\ Len(claim_dirs) = 2
    /\ successes = <<claim_dirs[1][1]>>
    /\ claim_dirs[2][1] \in DOMAIN failures
    /\ encounters # EmptyDict
    /\ encounters = parsed[claim_dirs[1][1]]

\* the decode attempts of the run in progress, or of the last run
RunAttempts == SelectSeq(attempts, LAMBDA a : a.run = run)

\* C25: during and after a run of process_batches with a limit (a
\* max_batches other than zero, which stands for no limit) the run has made
\* no more decode attempts than the limit; its attempts are in ascending
\* order of the payloads' modification times; its counter is the number of
\* its attempts, with the failed ones and those that copied no file and
\* without the batches it skipped; and the batches it returns are those of
\* its attempts that copied a file, in order.
C25_BatchLimit ==
    ppc \in {"loop", "returned"} =>
       /\ (max_batches # None /\ max_batches[1] # 0) => Len(RunAttempts) <= max_batches[1]
       /\ \A i, j \in 1..Len(RunAttempts) :
             i < j => data_root[RunAttempts[i].doc].mtime <= data_root[RunAttempts[j].doc].mtime
       /\ processed = Len(RunAttempts)
       /\ processed <= bidx - 1
       /\ \A i \in 1..(bidx - 1) :
             (\A j \in 1..Len(RunAttempts) : RunAttempts[j].doc # batches[i])
                => AlreadyDecoded(decoded_root, batches[i])
       /\ LET copying == SelectSeq(RunAttempts, LAMBDA a : a.success /\ a.copied # {})
          IN new_batch_dirs = [i \in 1..Len(copying) |-> copying[i].doc]

\* a run with a limit of one skipped a decoded batch, which did not count,
\* and made its one attempt on the batch behind it; the attempt failed and
\* the run returned no batch
C25_Witness ==
    /\ ppc = "returned"
    /\ max_batches = Some(1)
    /\ Len(batches) = 2
    /\ bidx = 3
    /\ AlreadyDecoded(decoded_root, batches[1])
    /\ Len(RunAttempts) = 1
    /\ RunAttempts[1].doc = batches[2]
    /\ ~RunAttempts[1].success
    /\ processed = 1
    /\ new_batch_dirs = <<>>

(***************************************************************************)
(* Properties of the window (SpecUI).                                      *)
(***************************************************************************)
\* C26: at most one worker thread is running at any time and the run button
\* is disabled as long as one is, and every worker thread started finishes
\* and the button is enabled again after it, whether the run raised or not.
C26_RunExclusivity ==
    /\ [](Cardinality(Alive) <= 1 /\ (Alive # {} => run_button = "disabled"))
    /\ \A w \in 1..MaxStarts :
          [](w \in DOMAIN threads =>
                <>(/\ w \in DOMAIN threads
                   /\ threads[w].pc = "finished"
                   /\ run_button = "normal"))

\* a run that raised and a run that did not have both finished, and the
\* button is enabled
C26_Witness ==
    /\ Len(threads) = 2
    /\ Alive = {}
    /\ \E w \in DOMAIN threads : threads[w].raised
    /\ \E w \in DOMAIN threads : ~threads[w].raised
    /\ run_button = "normal"

=============================================================================
